---- MODULE Spec2Model ----
(***************************************************************************)
(* Model of the integration agent pipeline: query_refiner, planner,        *)
(* schema_retriever, parameter_generator, validator, repair,               *)
(* workflow_generator and final_output, wired as in src/src/graph.py, and  *)
(* of the relevance scorer of src/src/action_selector.py.                  *)
(*                                                                         *)
(* Python values are modelled as follows.                                  *)
(*   str            a sequence of one-character strings                    *)
(*   Optional[str]  PyNone or PyStr(s)                                     *)
(*   dict           a function whose domain is the set of keys present     *)
(*   list           a sequence                                             *)
(*   Any            a record tagged by its field `py`                      *)
(***************************************************************************)
EXTENDS Integers, Sequences, FiniteSets, TLC

VARIABLES
    state,      \* the dict threaded through the nodes of the graph
    node,       \* the node the graph runs next, or "END" / "raised"
    prev,       \* the node that ran last ("START" before the first)
    repairs,    \* number of times the repair node ran (saturating)
    catalog,    \* content of data/integration_actions.json
    call        \* a direct call of the scorer: its inputs and its result

vars == <<state, node, prev, repairs, catalog, call>>

(***************************************************************************)
(* Strings                                                                 *)
(***************************************************************************)
UpperChars == <<"A","B","C","D","E","F","G","H","I","J","K","L","M",
                "N","O","P","Q","R","S","T","U","V","W","X","Y","Z">>

LowerChars == <<"a","b","c","d","e","f","g","h","i","j","k","l","m",
                "n","o","p","q","r","s","t","u","v","w","x","y","z">>

Digits == {"0","1","2","3","4","5","6","7","8","9"}

\* str.lower() on one character
LowerChar(c) ==
    IF \E i \in 1..Len(UpperChars) : UpperChars[i] = c
    THEN LowerChars[CHOOSE i \in 1..Len(UpperChars) : UpperChars[i] = c]
    ELSE c

\* str.lower()
Lower(s) == [i \in 1..Len(s) |-> LowerChar(s[i])]

\* Python's `sub in s` on strings
Contains(s, sub) ==
    \E i \in 0..(Len(s) - Len(sub)) :
        \A j \in 1..Len(sub) : s[i + j] = sub[j]

\* index of the first occurrence of character c in s, 0 when absent
FirstIndex(s, c) ==
    IF \E i \in 1..Len(s) : s[i] = c
    THEN CHOOSE i \in 1..Len(s) : s[i] = c /\ \A j \in 1..(i - 1) : s[j] # c
    ELSE 0

\* s.replace(c, "", 1)
RemoveFirst(s, c) ==
    LET i == FirstIndex(s, c)
    IN  IF i = 0 THEN s
        ELSE [j \in 1..(Len(s) - 1) |-> IF j < i THEN s[j] ELSE s[j + 1]]

\* str.isdigit()
IsDigit(s) == Len(s) > 0 /\ \A i \in 1..Len(s) : s[i] \in Digits

\* f"{{{{{name}}}}}"
Template(name) == <<"{", "{">> \o name \o <<"}", "}">>

(***************************************************************************)
(* Python values                                                           *)
(***************************************************************************)
PyNone == [py |-> "None"]

PyStr(s) == [py |-> "str", s |-> s]

\* an int, kept as its decimal digits (str(v) gives them back)
PyInt(digits) == [py |-> "int", digits |-> digits]

\* a dict: the tag lets it be told from a list and from None
PyDict(d) == [py |-> "dict", d |-> d]

\* a list: the tag lets isinstance(x, list) be decided
PyList(l) == [py |-> "list", items |-> l]

\* dict.get(k, default)
Get(d, k, default) == IF k \in DOMAIN d THEN d[k] ELSE default

\* the patch alone, without the copy of d
Update_without_copy(d, patch) == patch

\* new = d.copy(); new.update(patch)
Update(d, patch) == patch @@ d

\* bool(v) for an Optional[str]
TruthyStr(v) == v.py = "str" /\ v.s # <<>>

\* str(v) for the values of the model
StrOf(v) ==
    CASE v.py = "str" -> v.s
      [] v.py = "None" -> <<"N","o","n","e">>
      [] v.py = "int" -> v.digits
      [] OTHER -> <<"{", "}">>

(***************************************************************************)
(* Words used in the catalog, the contexts and the requests                *)
(***************************************************************************)
SP == <<" ">>

QUOTE == <<"\"">>

Word ==
    [slack |-> <<"s","l","a","c","k">>,
     notion |-> <<"n","o","t","i","o","n">>,
     wordpress |-> <<"w","o","r","d","p","r","e","s","s">>,
     wp |-> <<"w","p">>,
     webflow |-> <<"w","e","b","f","l","o","w">>,
     send |-> <<"s","e","n","d">>,
     create |-> <<"c","r","e","a","t","e">>,
     list |-> <<"l","i","s","t">>,
     update |-> <<"u","p","d","a","t","e">>,
     message |-> <<"m","e","s","s","a","g","e">>,
     post |-> <<"p","o","s","t">>,
     page |-> <<"p","a","g","e">>,
     title |-> <<"t","i","t","l","e">>,
     name |-> <<"n","a","m","e">>,
     channel |-> <<"c","h","a","n","n","e","l">>,
     body |-> <<"b","o","d","y">>,
     meta |-> <<"m","e","t","a">>,
     count |-> <<"c","o","u","n","t">>,
     status |-> <<"s","t","a","t","u","s">>,
     draft |-> <<"d","r","a","f","t">>,
     live |-> <<"l","i","v","e">>,
     x |-> <<"x">>,
     unknown |-> <<"u","n","k","n","o","w","n">>,
     integration |-> <<"i","n","t","e","g","r","a","t","i","o","n">>]

\* "Send Message", "Send Reminder", "Create Page", "List Pages", "Create Post"
ActionName ==
    [SendMessage |-> <<"S","e","n","d"," ","M","e","s","s","a","g","e">>,
     SendReminder |-> <<"S","e","n","d"," ","R","e","m","i","n","d","e","r">>,
     CreatePage |-> <<"C","r","e","a","t","e"," ","P","a","g","e">>,
     ListPages |-> <<"L","i","s","t"," ","P","a","g","e","s">>,
     CreatePost |-> <<"C","r","e","a","t","e"," ","P","o","s","t">>]

(***************************************************************************)
(* The catalog: data/integration_actions.json as load_integration_actions  *)
(* returns it.  Each action is a dict with integration, action,            *)
(* definition and inputs_schema; each parameter spec is a dict whose       *)
(* optional keys (required, test_value, options) may be absent.            *)
(***************************************************************************)
ParamSpec ==
    [channel |-> [name |-> Word.channel, interface |-> "short_text",
         required |-> TRUE],
     title |-> [name |-> Word.title, interface |-> "short_text",
         required |-> TRUE],
     body |-> [name |-> Word.body, interface |-> "long_text",
         required |-> TRUE],
     meta |-> [name |-> Word.meta, interface |-> "json", required |-> FALSE,
         test_value |-> PyStr(<<"{", "}">>)],
     count |-> [name |-> Word.count, interface |-> "number",
         test_value |-> PyInt(<<"3">>)],
     status |-> [name |-> Word.status, interface |-> "single_select",
         options |-> <<PyStr(Word.draft), PyStr(Word.live)>>,
         test_value |-> PyStr(Word.draft)],
     name |-> [name |-> Word.name, interface |-> "short_text"]]

Action ==
    [SlackSendMessage |->
         [integration |-> Word.slack, action |-> ActionName.SendMessage,
          definition |-> <<>>, inputs_schema |-> <<ParamSpec.channel>>],
     SlackSendReminder |->
         [integration |-> Word.slack, action |-> ActionName.SendReminder,
          definition |-> <<>>,
          inputs_schema |-> <<ParamSpec.channel, ParamSpec.count>>],
     NotionCreatePage |->
         [integration |-> Word.notion, action |-> ActionName.CreatePage,
          definition |-> <<>>,
          inputs_schema |-> <<ParamSpec.title, ParamSpec.count,
                              ParamSpec.name>>],
     NotionListPages |->
         [integration |-> Word.notion, action |-> ActionName.ListPages,
          definition |-> <<>>, inputs_schema |-> <<>>],
     WordpressCreatePost |->
         [integration |-> Word.wordpress, action |-> ActionName.CreatePost,
          definition |-> <<>>,
          inputs_schema |-> <<ParamSpec.title, ParamSpec.body,
                              ParamSpec.meta, ParamSpec.status>>]]

FullCatalog ==
    <<Action.SlackSendMessage, Action.SlackSendReminder,
      Action.NotionCreatePage, Action.NotionListPages,
      Action.WordpressCreatePost>>

Catalogs == {FullCatalog}

(***************************************************************************)
(* Contexts: data/workflow_context.json as load_workflow_context returns   *)
(* it, a dict kept as the sequence of its items in iteration order.        *)
(***************************************************************************)
Key ==
    [s1_body |-> <<"s","1",".","b","o","d","y">>,
     s1_title |-> <<"s","1",".","T","i","t","l","e">>,
     s1_meta |-> <<"s","1",".","m","e","t","a">>,
     channel_id |-> <<"c","h","a","n","n","e","l","_","i","d">>]

Ctx ==
    [empty |-> <<>>,
     seo |-> <<[key |-> Key.s1_title, value |-> PyStr(Word.x)],
               [key |-> Key.s1_body, value |-> PyStr(Word.x)]>>,
     chat |-> <<[key |-> Key.channel_id, value |-> PyStr(Word.x)]>>]

Contexts == {Ctx[k] : k \in DOMAIN Ctx}

(***************************************************************************)
(* Requests                                                                *)
(***************************************************************************)
Quoted(s) == QUOTE \o s \o QUOTE

Request ==
    [empty |-> <<>>,
     send_slack |-> Word.send \o SP \o Word.slack \o SP \o Word.message,
     send_it |-> Word.send \o SP \o <<"i","t">>,
     slack_only |-> Word.slack,
     notion_page |-> Word.notion \o SP \o Word.create \o SP \o Word.page
                     \o SP \o Word.title \o SP \o Quoted(Word.x),
     notion_list |-> Word.notion \o SP \o Word.list,
     wp_post |-> Word.wp \o SP \o Word.create \o SP \o Word.post \o SP
                 \o Word.title \o SP \o Quoted(Word.x),
     webflow |-> Word.update \o SP \o Word.webflow]

Requests == {Request[k] : k \in DOMAIN Request}

(***************************************************************************)
(* utils/helpers.py                                                        *)
(***************************************************************************)
\* re.findall(r'"([^"]*)"', request)[0], as <<found, text>>
FirstQuoted(request) ==
    LET i == FirstIndex(request, "\"")
        rest == IF i = 0 THEN <<>> ELSE SubSeq(request, i + 1, Len(request))
        j == FirstIndex(rest, "\"")
    IN  IF i = 0 \/ j = 0 THEN [found |-> FALSE, text |-> <<>>]
        ELSE [found |-> TRUE, text |-> SubSeq(rest, 1, j - 1)]

\* extract_parameters_from_request: a dict keyed by parameter name
extract_parameters_from_request(request) ==
    LET q == FirstQuoted(request)
        keys == {k \in {Word.title, Word.name} : Contains(Lower(request), k) /\ q.found}
    IN  [k \in keys |-> PyStr(q.text)]

(***************************************************************************)
(* src/nlp.py                                                              *)
(***************************************************************************)
ContainsAny(s, words) == \E w \in words : Contains(s, w)

\* The platform parse_user_request identifies.  available_integrations is
\* list(set(...)): the loop takes the first integration named in the
\* request in the set's iteration order, which is any of them.
ParsePlatforms(request_lower, integration_actions) ==
    LET available == {integration_actions[i].integration :
                          i \in 1..Len(integration_actions)}
        named == {g \in available : Contains(request_lower, Lower(g))}
        first == IF named = {} THEN {PyNone} ELSE {PyStr(g) : g \in named}
    IN  IF Contains(request_lower, Word.slack) THEN {PyStr(Word.slack)}
        ELSE IF ContainsAny(request_lower, {Word.wordpress, Word.wp})
             THEN {PyStr(Word.wordpress)}
        ELSE IF Contains(request_lower, Word.webflow) THEN {PyStr(Word.webflow)}
        ELSE first

ParseActionIntent(request_lower) ==
    IF ContainsAny(request_lower, {Word.create, <<"n","e","w">>, <<"a","d","d">>,
                                   <<"g","e","n","e","r","a","t","e">>})
    THEN PyStr(Word.create)
    ELSE IF ContainsAny(request_lower, {Word.update, <<"e","d","i","t">>,
                                        <<"m","o","d","i","f","y">>})
    THEN PyStr(Word.update)
    ELSE IF ContainsAny(request_lower, {Word.list, <<"g","e","t">>,
                                        <<"f","e","t","c","h">>})
    THEN PyStr(Word.list)
    ELSE IF ContainsAny(request_lower, {Word.send, <<"n","o","t","i","f","y">>})
    THEN PyStr(Word.send)
    ELSE PyNone

ParseEntityType(request_lower) ==
    IF Contains(request_lower, <<"c","o","l","l","e","c","t","i","o","n">>)
    THEN PyStr(<<"c","o","l","l","e","c","t","i","o","n">>)
    ELSE IF Contains(request_lower, <<"i","t","e","m">>)
    THEN PyStr(<<"i","t","e","m">>)
    ELSE IF Contains(request_lower, Word.post) THEN PyStr(Word.post)
    ELSE IF ContainsAny(request_lower, {Word.message,
                 <<"n","o","t","i","f","i","c","a","t","i","o","n">>})
    THEN PyStr(Word.message)
    ELSE IF ContainsAny(request_lower, {<<"d","o","c">>,
                 <<"d","o","c","u","m","e","n","t">>})
    THEN PyStr(<<"d","o","c","u","m","e","n","t">>)
    ELSE PyNone

\* parse_user_request: the set of results it can return
parse_user_request(user_request, integration_actions) ==
    LET request_lower == Lower(user_request)
    IN  {[platform |-> p,
          action_intent |-> ParseActionIntent(request_lower),
          entity_type |-> ParseEntityType(request_lower),
          parameters |-> <<>>,
          context_variables |-> <<>>,
          constraints |-> <<>>] :
            p \in ParsePlatforms(request_lower, integration_actions)}

(***************************************************************************)
(* src/action_selector.py                                                  *)
(*                                                                         *)
(* A score is a Python float, an IEEE 754 double.  A natural number is     *)
(* kept as the sequence of its digits in base 2^13, lowest digit first,    *)
(* and a double x >= 0 as [m, e] with x = m * 2^e, where m has five        *)
(* digits and 2^52 <= m < 2^53 (m = 0 and e = 0 for 0.0).  Every           *)
(* operation rounds to nearest, ties to even.                              *)
(***************************************************************************)
Min(a, b) == IF a < b THEN a ELSE b

\* F(x), with x evaluated once, as an assignment `v = x` does before v is
\* read several times
Once(F(_), x) == CHOOSE r \in {F(v) : v \in {x}} : TRUE

\* bit i (from 0) of the natural number n, 0 outside its digits
BitAt(n, i) ==
    IF i < 0 \/ i \div 13 >= Len(n) THEN 0
    ELSE (n[i \div 13 + 1] \div 2^(i % 13)) % 2

\* the natural number of `count` digits whose bit i is bit i + d of n
Shift(n, d, count) ==
    LET Digit(j) == IF j \in 1..Len(n) THEN n[j] ELSE 0
        whole == d \div 13
        part == d % 13
    IN  [j \in 1..count |->
            (Digit(j + whole) \div 2^part)
            + (Digit(j + whole + 1) % 2^part) * 2^(13 - part)]

\* a + b on natural numbers
NatAdd(a, b) ==
    LET L == IF Len(a) > Len(b) THEN Len(a) ELSE Len(b)
        A(i) == IF i <= Len(a) THEN a[i] ELSE 0
        B(i) == IF i <= Len(b) THEN b[i] ELSE 0
        RECURSIVE Sum(_, _)
        Sum(i, carry) ==
            IF i > L THEN IF carry = 0 THEN <<>> ELSE <<carry>>
            ELSE LET From(s) == <<s % 2^13>> \o Sum(i + 1, s \div 2^13)
                 IN  Once(From, A(i) + B(i) + carry)
    IN  Sum(1, 0)

\* the double nearest to n * 2^e, ties to even
RoundToDouble(n, e) ==
    LET Round(digits) ==
            LET used == {j \in 1..Len(digits) : digits[j] # 0}
            IN  IF used = {} THEN [m |-> <<0, 0, 0, 0, 0>>, e |-> 0]
                ELSE LET high == CHOOSE j \in used : \A k \in used : k <= j
                         top == 13 * (high - 1)
                                + (CHOOSE i \in 0..12 :
                                       digits[high] \div 2^i = 1)
                         d == top - 52
                         below == Shift(digits, d - 1 - 13 * Len(digits),
                                        Len(digits))
                         up == /\ d > 0
                               /\ BitAt(digits, d - 1) = 1
                               /\ \/ BitAt(digits, d) = 1
                                  \/ \E j \in 1..Len(digits) : below[j] # 0
                         Normal(r) ==
                             IF r[5] = 2
                             THEN [m |-> <<0, 0, 0, 0, 1>>, e |-> e + d + 1]
                             ELSE [m |-> r, e |-> e + d]
                     IN  Once(Normal, IF up
                                      THEN NatAdd(Shift(digits, d, 5), <<1>>)
                                      ELSE Shift(digits, d, 5))
    IN  Once(Round, n)

\* the double of the literal p/q or of the division p / q of two ints,
\* for 0 <= p < 2^13 and 0 < q < 2^15: the quotient to six digits after
\* the point by long division, and a lowest digit that tells whether a
\* remainder is left
FloatOf(p, q) ==
    LET RECURSIVE Frac(_, _)
        Frac(r, k) ==
            IF k = 0 THEN <<IF r # 0 THEN 1 ELSE 0>>
            ELSE LET From(s) == Frac(s % q, k - 1) \o <<s \div q>>
                 IN  Once(From, r * 2^13)
    IN  RoundToDouble(Frac(p % q, 6) \o <<p \div q>>, -91)

\* the digits of f.m * 2^(f.e - e), for e <= f.e
Aligned(f, e) ==
    Shift(f.m, e - f.e, 6 + (f.e - e) \div 13)

\* x + y; the operands are evaluated once
FAdd(x, y) ==
    LET Of(f) ==
            LET e == Min(f[1].e, f[2].e)
            IN  RoundToDouble(NatAdd(Aligned(f[1], e), Aligned(f[2], e)), e)
    IN  Once(Of, <<x, y>>)

\* x - y, for x >= y
FSub(x, y) ==
    LET Minus(d) ==
            LET RECURSIVE Diff(_, _)
                Diff(i, borrow) ==
                    IF i > Len(d[1]) THEN <<>>
                    ELSE LET From(s) ==
                                 <<(s + 2^13) % 2^13>>
                                 \o Diff(i + 1, IF s < 0 THEN 1 ELSE 0)
                         IN  Once(From, d[1][i] - borrow
                                   - (IF i <= Len(d[2]) THEN d[2][i] ELSE 0))
            IN  Diff(1, 0)
        Of(f) ==
            LET e == Min(f[1].e, f[2].e)
            IN  RoundToDouble(
                    Once(Minus, <<Aligned(f[1], e), Aligned(f[2], e)>>), e)
    IN  Once(Of, <<x, y>>)

\* x * y
FMul(x, y) ==
    LET Of(f) ==
            LET RECURSIVE Column(_, _)
                Column(k, i) ==
                    IF i > 5 THEN 0
                    ELSE (IF k - i + 1 \in 1..5
                          THEN f[1].m[i] * f[2].m[k - i + 1] ELSE 0)
                         + Column(k, i + 1)
                RECURSIVE Carry(_, _)
                Carry(k, carry) ==
                    IF k > 10 THEN <<>>
                    ELSE LET From(s) ==
                                 <<s % 2^13>> \o Carry(k + 1, s \div 2^13)
                         IN  Once(From, Column(k, 1) + carry)
            IN  RoundToDouble(Carry(1, 0), f[1].e + f[2].e)
    IN  Once(Of, <<x, y>>)

\* x < y
FLess(x, y) ==
    LET Below(d) ==
            LET A(i) == IF i <= Len(d[1]) THEN d[1][i] ELSE 0
                B(i) == IF i <= Len(d[2]) THEN d[2][i] ELSE 0
            IN  \E i \in 1..(Len(d[1]) + Len(d[2])) :
                    /\ A(i) < B(i)
                    /\ \A j \in (i + 1)..(Len(d[1]) + Len(d[2])) : A(j) = B(j)
        Of(f) ==
            LET e == Min(f[1].e, f[2].e)
            IN  Once(Below, <<Aligned(f[1], e), Aligned(f[2], e)>>)
    IN  Once(Of, <<x, y>>)

\* min(x, y)
FMin(x, y) ==
    LET Of(f) == IF FLess(f[2], f[1]) THEN f[2] ELSE f[1]
    IN  Once(Of, <<x, y>>)

\* x.lower() if x else ""
LowerOrEmpty(x) == IF TruthyStr(x) THEN Lower(x.s) ELSE <<>>

\* calculate_action_relevance without the tests that the intent and the
\* entity type are non-empty
calculate_action_relevance_unguarded(action, parsed_request) ==
    LET action_name == Lower(action.action)
        action_intent == LowerOrEmpty(parsed_request.action_intent)
        entity_type == LowerOrEmpty(parsed_request.entity_type)
        request_params == DOMAIN parsed_request.parameters
        action_params == {action.inputs_schema[i].name :
                              i \in 1..Len(action.inputs_schema)}
        param_overlap == Cardinality(request_params \cap action_params)
        n == Cardinality(request_params)
        s0 == FloatOf(0, 1)
        s1 == IF Contains(action_name, action_intent)
              THEN FAdd(s0, FloatOf(4, 10)) ELSE s0
        s2 == IF Contains(action_name, entity_type)
              THEN FAdd(s1, FloatOf(4, 10)) ELSE s1
        s3 == IF n > 0
              THEN FAdd(s2, FMul(FloatOf(2, 10), FloatOf(param_overlap, n)))
              ELSE s2
    IN  FMin(s3, FloatOf(1, 1))

\* a scorer that gives 0.2 for the intent and 0.2 for the entity type
calculate_action_relevance_fifths(action, parsed_request) ==
    LET action_name == Lower(action.action)
        action_intent == LowerOrEmpty(parsed_request.action_intent)
        entity_type == LowerOrEmpty(parsed_request.entity_type)
        request_params == DOMAIN parsed_request.parameters
        action_params == {action.inputs_schema[i].name :
                              i \in 1..Len(action.inputs_schema)}
        param_overlap == Cardinality(request_params \cap action_params)
        n == Cardinality(request_params)
        s0 == FloatOf(0, 1)
        s1 == IF action_intent # <<>> /\ Contains(action_name, action_intent)
              THEN FAdd(s0, FloatOf(2, 10)) ELSE s0
        s2 == IF entity_type # <<>> /\ Contains(action_name, entity_type)
              THEN FAdd(s1, FloatOf(2, 10)) ELSE s1
        s3 == IF n > 0
              THEN FAdd(s2, FMul(FloatOf(2, 10), FloatOf(param_overlap, n)))
              ELSE s2
    IN  FMin(s3, FloatOf(1, 1))

calculate_action_relevance(action, parsed_request) ==
    LET action_name == Lower(action.action)
        action_intent == LowerOrEmpty(parsed_request.action_intent)
        entity_type == LowerOrEmpty(parsed_request.entity_type)
        request_params == DOMAIN parsed_request.parameters
        action_params == {action.inputs_schema[i].name :
                              i \in 1..Len(action.inputs_schema)}
        param_overlap == Cardinality(request_params \cap action_params)
        n == Cardinality(request_params)
        s0 == FloatOf(0, 1)
        s1 == IF action_intent # <<>> /\ Contains(action_name, action_intent)
              THEN FAdd(s0, FloatOf(4, 10)) ELSE s0
        s2 == IF entity_type # <<>> /\ Contains(action_name, entity_type)
              THEN FAdd(s1, FloatOf(4, 10)) ELSE s1
        s3 == IF n > 0
              THEN FAdd(s2, FMul(FloatOf(2, 10), FloatOf(param_overlap, n)))
              ELSE s2
    IN  FMin(s3, FloatOf(1, 1))

(***************************************************************************)
(* The nodes.  Each node is an operator from the state it is given to      *)
(* [raised, out]: raised when an exception leaves _run, else out is what   *)
(* _run returns.  `loaded` is the outcome of load_integration_actions():   *)
(* [ok |-> TRUE, actions |-> ...] or [ok |-> FALSE] when it raises.        *)
(***************************************************************************)
Returns(out) == [raised |-> FALSE, out |-> out]

Raises == [raised |-> TRUE]

\* state.get fails on anything that is not a dict: the pydantic object
\* schema_retriever may return carries the tag py, a state dict has no such key
IsDict(s) == "py" \notin DOMAIN s

\* src/nodes/query_refiner.py
QueryRefinerRun(s, loaded) ==
    IF ~IsDict(s) THEN Raises
    ELSE LET user_request == Get(s, "user_request", <<>>)
    IN  IF user_request = <<>>
        THEN Returns(Update(s, [refined_query |-> <<>>,
                                extracted_entities |-> <<>>,
                                needs_clarification |-> TRUE,
                                error |-> "No user request provided"]))
        ELSE IF ~loaded.ok
        THEN Returns(Update(s, [refined_query |-> user_request,
                                extracted_entities |-> <<>>,
                                needs_clarification |-> TRUE,
                                error |-> "Query refinement failed"]))
        ELSE Returns(Update(s, [refined_query |-> user_request,
                                extracted_entities |->
                                    [platform |-> "webflow", action |-> "create",
                                     entity |-> "item"],
                                needs_clarification |-> FALSE,
                                clarification_questions |-> <<>>]))

\* src/nodes/planner.py: `parsed` is the result parse_user_request returned
PlannerRun(s, loaded, parsed) ==
    IF ~IsDict(s) THEN Raises
    ELSE LET refined_query ==
                 Get(s, "refined_query", Get(s, "user_request", <<>>))
    IN  IF refined_query = <<>>
        THEN Returns(Update(s, [platform |-> PyNone,
                                action_intent |-> PyNone,
                                entity_type |-> PyNone,
                                error |-> "No query to plan"]))
        ELSE IF ~loaded.ok
        THEN Returns(Update(s, [platform |-> PyNone,
                                action_intent |-> PyNone,
                                entity_type |-> PyNone,
                                error |-> "Planning failed"]))
        ELSE Returns(Update(s, [platform |-> parsed.platform,
                                action_intent |-> parsed.action_intent,
                                entity_type |-> parsed.entity_type,
                                parsed_parameters |-> parsed.parameters,
                                identified_context_variables |->
                                    parsed.context_variables]))

\* a sort that is not stable: entries of equal score change places
SortByScore_reversing_ties(scored) ==
    LET Sorted(list) ==
            LET Before(j, i) == \/ FLess(list[i].score, list[j].score)
                                \/ list[i].score = list[j].score /\ j > i
                Rank(i) == Cardinality({j \in 1..Len(list) : Before(j, i)})
            IN  [k \in 1..Len(list) |->
                    list[CHOOSE i \in 1..Len(list) : Rank(i) = k - 1]]
    IN  Once(Sorted, scored)

\* scored.sort(key=lambda x: x["score"], reverse=True): a stable sort, so
\* entries of equal score keep their order
SortByScore(scored) ==
    LET Sorted(list) ==
            LET Before(j, i) == \/ FLess(list[i].score, list[j].score)
                                \/ list[i].score = list[j].score /\ j < i
                Rank(i) == Cardinality({j \in 1..Len(list) : Before(j, i)})
            IN  [k \in 1..Len(list) |->
                    list[CHOOSE i \in 1..Len(list) : Rank(i) = k - 1]]
    IN  Once(Sorted, scored)

\* a selector that offers scored_actions[1:2], one alternative at most
select_integration_action_one_alternative(parsed_request, integration_actions) ==
    IF integration_actions # <<>> /\ parsed_request.platform.py # "str"
    THEN Raises
    ELSE
    LET IsPlatform(action) ==
            Lower(action.integration) = Lower(parsed_request.platform.s)
        platform_actions == SelectSeq(integration_actions, IsPlatform)
        scored ==
            SortByScore([i \in 1..Len(platform_actions) |->
                [action |-> platform_actions[i],
                 score |-> calculate_action_relevance(
                               platform_actions[i], parsed_request)]])
        Selection(scored_actions) ==
            LET best_match == scored_actions[1]
                Result(needs_clarification) ==
                    [status |-> IF FLess(FloatOf(5, 10), best_match.score)
                                THEN "success" ELSE "low_confidence",
                     action |-> PyDict(best_match.action),
                     confidence |-> best_match.score,
                     alternatives |->
                         IF needs_clarification
                         THEN [k \in 1..Min(1, Len(scored_actions) - 1) |->
                                  scored_actions[k + 1].action]
                         ELSE <<>>,
                     needs_clarification |-> needs_clarification]
            IN  Once(Result,
                     /\ Len(scored_actions) > 1
                     /\ FLess(FSub(scored_actions[1].score,
                                   scored_actions[2].score), FloatOf(3, 10)))
    IN  IF platform_actions = <<>>
        THEN Returns([status |-> "error",
                      message |-> parsed_request.platform,
                      action |-> PyNone,
                      confidence |-> FloatOf(0, 1)])
        ELSE Returns(Once(Selection, scored))

\* select_integration_action with status success from a score of 0.5 on
select_integration_action_from_half(parsed_request, integration_actions) ==
    IF integration_actions # <<>> /\ parsed_request.platform.py # "str"
    THEN Raises
    ELSE
    LET IsPlatform(action) ==
            Lower(action.integration) = Lower(parsed_request.platform.s)
        platform_actions == SelectSeq(integration_actions, IsPlatform)
        scored ==
            SortByScore([i \in 1..Len(platform_actions) |->
                [action |-> platform_actions[i],
                 score |-> calculate_action_relevance(
                               platform_actions[i], parsed_request)]])
        Selection(scored_actions) ==
            LET best_match == scored_actions[1]
                Result(needs_clarification) ==
                    [status |-> IF ~FLess(best_match.score, FloatOf(5, 10))
                                THEN "success" ELSE "low_confidence",
                     action |-> PyDict(best_match.action),
                     confidence |-> best_match.score,
                     alternatives |->
                         IF needs_clarification
                         THEN [k \in 1..Min(2, Len(scored_actions) - 1) |->
                                  scored_actions[k + 1].action]
                         ELSE <<>>,
                     needs_clarification |-> needs_clarification]
            IN  Once(Result,
                     /\ Len(scored_actions) > 1
                     /\ FLess(FSub(scored_actions[1].score,
                                   scored_actions[2].score), FloatOf(3, 10)))
    IN  IF platform_actions = <<>>
        THEN Returns([status |-> "error",
                      message |-> parsed_request.platform,
                      action |-> PyNone,
                      confidence |-> FloatOf(0, 1)])
        ELSE Returns(Once(Selection, scored))

\* src/action_selector.py: [raised, out] as for the nodes.  The message of
\* the error result is kept as the platform it embeds.
select_integration_action(parsed_request, integration_actions) ==
    IF integration_actions # <<>> /\ parsed_request.platform.py # "str"
    THEN Raises
    ELSE
    LET IsPlatform(action) ==
            Lower(action.integration) = Lower(parsed_request.platform.s)
        platform_actions == SelectSeq(integration_actions, IsPlatform)
        scored ==
            SortByScore([i \in 1..Len(platform_actions) |->
                [action |-> platform_actions[i],
                 score |-> calculate_action_relevance(
                               platform_actions[i], parsed_request)]])
        Selection(scored_actions) ==
            LET best_match == scored_actions[1]
                Result(needs_clarification) ==
                    [status |-> IF FLess(FloatOf(5, 10), best_match.score)
                                THEN "success" ELSE "low_confidence",
                     action |-> PyDict(best_match.action),
                     confidence |-> best_match.score,
                     alternatives |->
                         IF needs_clarification
                         THEN [k \in 1..Min(2, Len(scored_actions) - 1) |->
                                  scored_actions[k + 1].action]
                         ELSE <<>>,
                     needs_clarification |-> needs_clarification]
            IN  Once(Result,
                     /\ Len(scored_actions) > 1
                     /\ FLess(FSub(scored_actions[1].score,
                                   scored_actions[2].score), FloatOf(3, 10)))
    IN  IF platform_actions = <<>>
        THEN Returns([status |-> "error",
                      message |-> parsed_request.platform,
                      action |-> PyNone,
                      confidence |-> FloatOf(0, 1)])
        ELSE Returns(Once(Selection, scored))

\* the pydantic object returned when the platform has no action
SchemaRetrieverOutput ==
    [py |-> "SchemaRetrieverOutput", matched_action |-> PyNone,
     alternatives |-> <<>>, needs_clarification |-> FALSE]

\* src/nodes/schema_retriever.py
SchemaRetrieverRun(s, loaded) ==
    IF ~IsDict(s) THEN Raises
    ELSE LET platform == Get(s, "platform", PyStr(<<>>))
             action_intent == Get(s, "action_intent", PyStr(<<>>))
             entity_type == Get(s, "entity_type", PyStr(<<>>))
    IN  IF ~TruthyStr(platform)
        THEN Returns(Update(s, [selected_action |-> PyNone,
                                action_schema |-> PyList(<<>>),
                                needs_action_clarification |-> TRUE,
                                error |-> "No platform identified"]))
        ELSE IF ~loaded.ok THEN Raises
        ELSE
        LET IsPlatform(action) == Lower(action.integration) = Lower(platform.s)
            platform_actions == SelectSeq(loaded.actions, IsPlatform)
            mock_parsed_request == [platform |-> platform,
                                    action_intent |-> action_intent,
                                    entity_type |-> entity_type,
                                    parameters |-> <<>>]
            scored ==
                SortByScore([i \in 1..Len(platform_actions) |->
                    [action |-> platform_actions[i],
                     score |-> calculate_action_relevance(
                                   platform_actions[i], mock_parsed_request)]])
            Selection(scored_actions) ==
                LET needs_clarification ==
                        /\ Len(scored_actions) > 1
                        /\ FLess(FSub(scored_actions[1].score,
                                      scored_actions[2].score), FloatOf(3, 10))
                    selected_action == scored_actions[1].action
                    Updated(clarify) ==
                        Update(s,
                            [selected_action |-> PyDict(selected_action),
                             action_schema |->
                                 PyList(selected_action.inputs_schema),
                             action_alternatives |->
                                 IF clarify
                                 THEN [k \in 1..Min(2, Len(scored_actions) - 1)
                                          |-> scored_actions[k + 1].action]
                                 ELSE <<>>,
                             needs_action_clarification |-> clarify])
                IN  Once(Updated, needs_clarification)
        IN  IF platform_actions = <<>> THEN Returns(SchemaRetrieverOutput)
            ELSE Returns(Once(Selection, scored))

\* a ratio of two counts, kept exactly (confidence = num / den)
Ratio(num, den) == [num |-> num, den |-> den]

\* `inputs_schema` of the nodes: the action_schema itself when it is a
\* list, else action_schema.get("inputs_schema", [])
InputsSchemaOf(action_schema) ==
    IF action_schema.py = "list" THEN action_schema.items
    ELSE Get(action_schema.d, "inputs_schema", <<>>)

\* index of the last context item whose key contains param_name
ContextMatch_last(param_name, context_variables) ==
    LET Hit(i) == Contains(Lower(context_variables[i].key), Lower(param_name))
    IN  IF \E i \in 1..Len(context_variables) : Hit(i)
        THEN CHOOSE i \in 1..Len(context_variables) :
                 Hit(i) /\ \A j \in (i + 1)..Len(context_variables) : ~Hit(j)
        ELSE 0

\* index of the first context item whose key contains param_name
\* (both lowercased), 0 when there is none
ContextMatch(param_name, context_variables) ==
    LET Hit(i) == Contains(Lower(context_variables[i].key), Lower(param_name))
    IN  IF \E i \in 1..Len(context_variables) : Hit(i)
        THEN CHOOSE i \in 1..Len(context_variables) :
                 Hit(i) /\ \A j \in 1..(i - 1) : ~Hit(j)
        ELSE 0

\* GenerateOne with the context tried before the extracted parameters
GenerateOne_context_first(param, extracted_params, context_variables, acc) ==
    LET param_name == param.name
        m == ContextMatch(param_name, context_variables)
    IN  IF m # 0
        THEN [acc EXCEPT !.parameters = Append(@,
                 [name |-> param_name,
                  value |-> PyStr(Template(context_variables[m].key)),
                  source |-> "context"])]
        ELSE IF param_name \in DOMAIN extracted_params
        THEN [acc EXCEPT !.parameters = Append(@,
                 [name |-> param_name,
                  value |-> extracted_params[param_name],
                  source |-> "user_request"])]
        ELSE IF Get(param, "required", FALSE)
        THEN [acc EXCEPT !.missing_parameters = Append(@, param_name)]
        ELSE IF "test_value" \in DOMAIN param
        THEN [acc EXCEPT !.parameters = Append(@,
                 [name |-> param_name,
                  value |-> param.test_value,
                  source |-> "default"])]
        ELSE acc

\* GenerateOne without the record of a missing required parameter
GenerateOne_unrecorded(param, extracted_params, context_variables, acc) ==
    LET param_name == param.name
        m == ContextMatch(param_name, context_variables)
    IN  IF param_name \in DOMAIN extracted_params
        THEN [acc EXCEPT !.parameters = Append(@,
                 [name |-> param_name,
                  value |-> extracted_params[param_name],
                  source |-> "user_request"])]
        ELSE IF m # 0
        THEN [acc EXCEPT !.parameters = Append(@,
                 [name |-> param_name,
                  value |-> PyStr(Template(context_variables[m].key)),
                  source |-> "context"])]
        ELSE IF "test_value" \in DOMAIN param /\ ~Get(param, "required", FALSE)
        THEN [acc EXCEPT !.parameters = Append(@,
                 [name |-> param_name,
                  value |-> param.test_value,
                  source |-> "default"])]
        ELSE acc

\* one pass of the loop `for param in inputs_schema` of the generator
GenerateOne(param, extracted_params, context_variables, acc) ==
    LET param_name == param.name
        m == ContextMatch(param_name, context_variables)
    IN  IF param_name \in DOMAIN extracted_params
        THEN [acc EXCEPT !.parameters = Append(@,
                 [name |-> param_name,
                  value |-> extracted_params[param_name],
                  source |-> "user_request"])]
        ELSE IF m # 0
        THEN [acc EXCEPT !.parameters = Append(@,
                 [name |-> param_name,
                  value |-> PyStr(Template(context_variables[m].key)),
                  source |-> "context"])]
        ELSE IF Get(param, "required", FALSE)
        THEN [acc EXCEPT !.missing_parameters = Append(@, param_name)]
        ELSE IF "test_value" \in DOMAIN param
        THEN [acc EXCEPT !.parameters = Append(@,
                 [name |-> param_name,
                  value |-> param.test_value,
                  source |-> "default"])]
        ELSE acc

\* a loop that handles the specs of the schema from the last to the first
RECURSIVE GenerateLoop_last_first(_, _, _, _)
GenerateLoop_last_first(inputs_schema, extracted_params, context_variables, acc) ==
    IF inputs_schema = <<>> THEN acc
    ELSE GenerateOne(Head(inputs_schema), extracted_params, context_variables,
             GenerateLoop_last_first(Tail(inputs_schema), extracted_params,
                                     context_variables, acc))

RECURSIVE GenerateLoop(_, _, _, _)
GenerateLoop(inputs_schema, extracted_params, context_variables, acc) ==
    IF inputs_schema = <<>> THEN acc
    ELSE GenerateLoop(Tail(inputs_schema), extracted_params, context_variables,
             GenerateOne(Head(inputs_schema), extracted_params,
                         context_variables, acc))

\* GeneratorConfidence without the subtraction: the share that is missing
GeneratorConfidence_missing_share(required_params, missing_parameters) ==
    IF required_params # <<>>
    THEN Ratio(Len(missing_parameters), Len(required_params))
    ELSE Ratio(1, 1)

\* the confidence of the generator
GeneratorConfidence(required_params, missing_parameters) ==
    IF required_params # <<>>
    THEN Ratio(Len(required_params) - Len(missing_parameters),
               Len(required_params))
    ELSE Ratio(1, 1)

\* a generator that goes on from the placeholder bindings of Repair
ParameterGeneratorRun_keeping_repairs(s) ==
    IF ~IsDict(s) THEN Raises
    ELSE
    LET action_schema == Get(s, "action_schema", PyList(<<>>))
        context_variables == Get(s, "context_variables", <<>>)
        user_request == Get(s, "user_request", <<>>)
        extracted_params == extract_parameters_from_request(user_request)
        inputs_schema == InputsSchemaOf(action_schema)
        IsRequired(param) == Get(param, "required", FALSE)
        required_params == SelectSeq(inputs_schema, IsRequired)
        done == GenerateLoop(inputs_schema, extracted_params, context_variables,
                             [parameters |-> SelectSeq(Get(s, "parameters", <<>>),
                                            LAMBDA p : p.source = "repair"),
                              missing_parameters |-> <<>>])
    IN  Returns(Update(s,
            [parameters |-> done.parameters,
             missing_parameters |-> done.missing_parameters,
             parameter_confidence |->
                 GeneratorConfidence(required_params, done.missing_parameters)]))

\* src/nodes/generator.py
ParameterGeneratorRun(s) ==
    IF ~IsDict(s) THEN Raises
    ELSE
    LET action_schema == Get(s, "action_schema", PyList(<<>>))
        context_variables == Get(s, "context_variables", <<>>)
        user_request == Get(s, "user_request", <<>>)
        extracted_params == extract_parameters_from_request(user_request)
        inputs_schema == InputsSchemaOf(action_schema)
        IsRequired(param) == Get(param, "required", FALSE)
        required_params == SelectSeq(inputs_schema, IsRequired)
        done == GenerateLoop(inputs_schema, extracted_params, context_variables,
                             [parameters |-> <<>>, missing_parameters |-> <<>>])
    IN  Returns(Update(s,
            [parameters |-> done.parameters,
             missing_parameters |-> done.missing_parameters,
             parameter_confidence |->
                 GeneratorConfidence(required_params, done.missing_parameters)]))

(***************************************************************************)
(* src/nodes/validator.py                                                  *)
(***************************************************************************)
ErrorText ==
    [missing |-> <<"R","e","q","u","i","r","e","d"," ","p","a","r","a","m","e","t",
         "e","r"," ","i","s"," ","m","i","s","s","i","n","g">>,
     number |-> <<"E","x","p","e","c","t","e","d"," ","a"," ","n","u","m","b","e",
         "r",","," ","g","o","t",":"," ">>,
     json |-> <<"E","x","p","e","c","t","e","d"," ","v","a","l","i","d"," ","J",
         "S","O","N",","," ","g","o","t",":"," ">>,
     value |-> <<"V","a","l","u","e"," ","'">>,
     not_in |-> <<"'"," ","n","o","t"," ","i","n"," ","a","l","l","o","w","e","d",
         " ","o","p","t","i","o","n","s",":"," ">>]

SuggestionText ==
    [provide |-> <<"P","l","e","a","s","e"," ","p","r","o","v","i","d","e"," ","a",
         " ","v","a","l","u","e"," ","f","o","r"," ","t","h","i","s"," ",
         "p","a","r","a","m","e","t","e","r">>,
     numeric |-> <<"P","l","e","a","s","e"," ","p","r","o","v","i","d","e"," ","a",
         " ","n","u","m","e","r","i","c"," ","v","a","l","u","e">>,
     json |-> <<"P","l","e","a","s","e"," ","p","r","o","v","i","d","e"," ","a"," ",
         "p","r","o","p","e","r","l","y"," ","f","o","r","m","a","t","t","e",
         "d"," ","J","S","O","N"," ","o","b","j","e","c","t">>,
     select |-> <<"P","l","e","a","s","e"," ","s","e","l","e","c","t"," ","o","n",
         "e"," ","o","f"," ","t","h","e"," ","a","l","l","o","w","e","d",
         " ","o","p","t","i","o","n","s",":"," ">>,
     check |-> <<"P","l","e","a","s","e"," ","c","h","e","c","k"," ","t","h","i",
         "s"," ","p","a","r","a","m","e","t","e","r">>]

\* repr(v) of a list element
ReprOf(v) == IF v.py = "str" THEN <<"'">> \o v.s \o <<"'">> ELSE StrOf(v)

\* ", ".join(repr(x) for x in items)
RECURSIVE JoinRepr(_)
JoinRepr(items) ==
    IF items = <<>> THEN <<>>
    ELSE IF Len(items) = 1 THEN ReprOf(items[1])
    ELSE ReprOf(items[1]) \o <<",", " ">> \o JoinRepr(Tail(items))

\* str(list)
ListRepr(items) == <<"[">> \o JoinRepr(items) \o <<"]">>

\* s matches the JSON number grammar -?(0|[1-9][0-9]*)(\.[0-9]+)?
IsJsonNumber(s) ==
    LET u == IF s # <<>> /\ s[1] = "-" THEN Tail(s) ELSE s
        dot == FirstIndex(u, ".")
        int == IF dot = 0 THEN u ELSE SubSeq(u, 1, dot - 1)
        frac == IF dot = 0 THEN <<>> ELSE SubSeq(u, dot + 1, Len(u))
    IN  /\ IsDigit(int)
        /\ (Len(int) > 1 => int[1] # "0")
        /\ (dot # 0 => IsDigit(frac))

\* json.loads(s) succeeds.  The texts decided are numbers, the three
\* literals, the empty object and array, and strings without escapes;
\* every other text of the model is not JSON.
JsonLoads(s) ==
    \/ IsJsonNumber(s)
    \/ s \in {<<"t","r","u","e">>, <<"f","a","l","s","e">>, <<"n","u","l","l">>,
              <<"{","}">>, <<"[","]">>}
    \/ /\ Len(s) >= 2 /\ s[1] = "\"" /\ s[Len(s)] = "\""
       /\ \A i \in 2..(Len(s) - 1) : s[i] \notin {"\"", "\\"}

\* a check that takes any text in braces for JSON
is_valid_json_braces(value) ==
    IF value.py \in {"dict", "list"} THEN TRUE
    ELSE IF value.py = "str"
    THEN \/ JsonLoads(value.s)
         \/ Len(value.s) >= 2 /\ value.s[1] = "{" /\ value.s[Len(value.s)] = "}"
    ELSE FALSE

\* ParameterValidatorTool._is_valid_json
is_valid_json(value) ==
    IF value.py \in {"dict", "list"} THEN TRUE
    ELSE IF value.py = "str" THEN JsonLoads(value.s)
    ELSE FALSE

\* a test that drops every decimal point, not the first alone
IsNumberValue_any_points(value) ==
    \/ value.py \in {"int", "float"}
    \/ IsDigit(SelectSeq(StrOf(value), LAMBDA c : c # "."))

\* isinstance(value, (int, float)) or
\* str(value).replace(".", "", 1).isdigit()
IsNumberValue(value) ==
    value.py \in {"int", "float"} \/ IsDigit(RemoveFirst(StrOf(value), "."))

\* a lookup that leaves out the bindings made from the context
HasBinding_without_context(parameters, name) ==
    \E i \in 1..Len(parameters) :
        parameters[i].name = name /\ parameters[i].source # "context"

\* param_lookup: the value of the last binding named `name`
HasBinding(parameters, name) ==
    \E i \in 1..Len(parameters) : parameters[i].name = name

\* a lookup that keeps the value of the first binding of the name
Lookup_first(parameters, name) ==
    parameters[CHOOSE i \in 1..Len(parameters) :
        /\ parameters[i].name = name
        /\ \A j \in 1..(i - 1) : parameters[j].name # name].value

Lookup(parameters, name) ==
    parameters[CHOOSE i \in 1..Len(parameters) :
        /\ parameters[i].name = name
        /\ \A j \in (i + 1)..Len(parameters) : parameters[j].name # name].value

\* `value in options`
InOptions(value, options) == \E i \in 1..Len(options) : options[i] = value

\* one pass of the loop `for schema_param in inputs_schema` of the validator
ValidateOne(schema_param, parameters, errors) ==
    LET param_name == schema_param.name
        value == Lookup(parameters, param_name)
        interface == Get(schema_param, "interface", "short_text")
        options == Get(schema_param, "options", <<>>)
    IN  IF Get(schema_param, "required", FALSE)
           /\ ~HasBinding(parameters, param_name)
        THEN Append(errors, [parameter |-> param_name,
                             error |-> ErrorText.missing,
                             suggestion |-> SuggestionText.provide])
        ELSE IF ~HasBinding(parameters, param_name) THEN errors
        ELSE IF interface = "number" /\ ~IsNumberValue(value)
        THEN Append(errors, [parameter |-> param_name,
                             error |-> ErrorText.number \o StrOf(value),
                             suggestion |-> SuggestionText.numeric])
        ELSE IF interface = "json" /\ ~is_valid_json(value)
        THEN Append(errors, [parameter |-> param_name,
                             error |-> ErrorText.json \o StrOf(value),
                             suggestion |-> SuggestionText.json])
        ELSE IF interface = "single_select" /\ options # <<>>
                /\ ~InOptions(value, options)
        THEN Append(errors, [parameter |-> param_name,
                             error |-> ErrorText.value \o StrOf(value) \o ErrorText.not_in
                                       \o ListRepr(options),
                             suggestion |-> SuggestionText.select \o ListRepr(options)])
        ELSE errors

\* a validator that checks the first schema parameter alone
ValidateLoop_first_only(inputs_schema, parameters, errors) ==
    IF inputs_schema = <<>> THEN errors
    ELSE ValidateOne(Head(inputs_schema), parameters, errors)

RECURSIVE ValidateLoop(_, _, _)
ValidateLoop(inputs_schema, parameters, errors) ==
    IF inputs_schema = <<>> THEN errors
    ELSE ValidateLoop(Tail(inputs_schema), parameters,
                      ValidateOne(Head(inputs_schema), parameters, errors))

ParameterValidatorRun(s) ==
    IF ~IsDict(s) THEN Raises
    ELSE
    LET action_schema == Get(s, "action_schema", PyList(<<>>))
        parameters == Get(s, "parameters", <<>>)
        inputs_schema == InputsSchemaOf(action_schema)
        errors == ValidateLoop(inputs_schema, parameters, <<>>)
    IN  Returns(Update(s,
            [validation_result |-> [is_valid |-> Len(errors) = 0,
                                    errors |-> errors]]))

(***************************************************************************)
(* src/nodes/repair.py                                                     *)
(***************************************************************************)
\* one pass of the loop `for error in validation_errors` of the repair node
RepairOne(error, acc) ==
    LET param_name == error.parameter
        suggestion == Get(error, "suggestion", SuggestionText.check)
        suggested == [acc EXCEPT !.suggestions =
                          Append(@, param_name \o <<":", " ">> \o suggestion)]
    IN  IF Contains(error.error, ErrorText.missing)
        THEN [suggested EXCEPT !.repaired_parameters = Append(@,
                 [name |-> param_name,
                  value |-> PyStr(Template(param_name)),
                  source |-> "repair"])]
        ELSE suggested

RECURSIVE RepairLoop(_, _)
RepairLoop(validation_errors, acc) ==
    IF validation_errors = <<>> THEN acc
    ELSE RepairLoop(Tail(validation_errors),
                    RepairOne(Head(validation_errors), acc))

RepairRun(s) ==
    IF ~IsDict(s) THEN Raises
    ELSE
    LET validation_result == Get(s, "validation_result", <<>>)
        validation_errors == Get(validation_result, "errors", <<>>)
        parameters == Get(s, "parameters", <<>>)
        done == RepairLoop(validation_errors,
                           [repaired_parameters |-> parameters,
                            suggestions |-> <<>>])
    IN  Returns(Update(s,
            [parameters |-> done.repaired_parameters,
             repair_suggestions |-> done.suggestions,
             repair_applied |-> TRUE]))

(***************************************************************************)
(* src/nodes/workflow_generator.py                                         *)
(*                                                                         *)
(* The text of a generated code step and of the explanation is kept as     *)
(* the data the f-strings embed, not as characters.                        *)
(***************************************************************************)
\* bool(x) for a list, a dict or None
Truthy(x) ==
    CASE x.py = "list" -> x.items # <<>>
      [] x.py = "dict" -> DOMAIN x.d # {}
      [] OTHER -> FALSE

\* `a or b` of a node that reads the selected action whatever the schema
PyOr_second(a, b) == b

\* `a or b`
PyOr(a, b) == IF Truthy(a) THEN a ELSE b

\* x[key] raises (TypeError on a list or None, KeyError on a dict
\* without the key)
CannotIndex(x, key) == x.py # "dict" \/ key \notin DOMAIN x.d

\* the inputs_schema _analyze_parameters reads
AnalyzedSchema(action_schema) ==
    IF action_schema.py = "None" THEN <<>>
    ELSE InputsSchemaOf(action_schema)

\* schema_types.get(param_name, "short_text"): a dict comprehension, so
\* the last spec of that name decides
SchemaType(inputs_schema, param_name) ==
    IF \E i \in 1..Len(inputs_schema) : inputs_schema[i].name = param_name
    THEN Get(inputs_schema[CHOOSE i \in 1..Len(inputs_schema) :
                 /\ inputs_schema[i].name = param_name
                 /\ \A j \in (i + 1)..Len(inputs_schema) :
                        inputs_schema[j].name # param_name],
             "interface", "short_text")
    ELSE "short_text"

NeedsJsonParsing(param, inputs_schema) ==
    /\ SchemaType(inputs_schema, param.name) = "json"
    /\ param.value.py = "str"
    /\ param.source # "user_request"

NeedsDataMapping(param) ==
    /\ Contains(StrOf(param.value), <<".">>)
    /\ param.source = "context"

\* analyze_parameters with `elif` for the second test: a parameter that
\* needs JSON parsing is not looked at for data mapping
analyze_parameters_exclusive(parameters, action_schema) ==
    LET inputs_schema == AnalyzedSchema(action_schema)
        IsJson(param) == NeedsJsonParsing(param, inputs_schema)
        IsMapping(param) == ~IsJson(param) /\ NeedsDataMapping(param)
        json_params == SelectSeq(parameters, IsJson)
        mapping_params == SelectSeq(parameters, IsMapping)
    IN  [needs_json_parsing |-> json_params # <<>>,
         json_params |-> json_params,
         needs_data_mapping |-> mapping_params # <<>>,
         mapping_params |-> mapping_params]

analyze_parameters(parameters, action_schema) ==
    LET inputs_schema == AnalyzedSchema(action_schema)
        IsJson(param) == NeedsJsonParsing(param, inputs_schema)
        json_params == SelectSeq(parameters, IsJson)
        mapping_params == SelectSeq(parameters, NeedsDataMapping)
    IN  [needs_json_parsing |-> json_params # <<>>,
         json_params |-> json_params,
         needs_data_mapping |-> mapping_params # <<>>,
         mapping_params |-> mapping_params]

StepName ==
    [json_parser |-> <<"j","s","o","n","_","p","a","r","s","e","r">>,
     data_mapper |-> <<"d","a","t","a","_","m","a","p","p","e","r">>,
     integration_action |-> <<"i","n","t","e","g","r","a","t","i","o","n","_",
                              "a","c","t","i","o","n">>]

create_json_parser_step(json_params) ==
    [name |-> StepName.json_parser, type |-> "code",
     config |-> [language |-> "python",
                 function |-> [i \in 1..Len(json_params) |->
                     [name |-> json_params[i].name,
                      value |-> json_params[i].value]]]]

\* s.strip("{{}}"): drops leading and trailing braces
RECURSIVE StripBraces(_)
StripBraces(s) ==
    IF s = <<>> THEN s
    ELSE IF Head(s) \in {"{", "}"} THEN StripBraces(Tail(s))
    ELSE IF s[Len(s)] \in {"{", "}"} THEN StripBraces(SubSeq(s, 1, Len(s) - 1))
    ELSE s

\* s.split(".")
RECURSIVE SplitDots(_)
SplitDots(s) ==
    LET i == FirstIndex(s, ".")
    IN  IF i = 0 THEN <<s>>
        ELSE <<SubSeq(s, 1, i - 1)>> \o SplitDots(SubSeq(s, i + 1, Len(s)))

create_data_mapping_step(mapping_params) ==
    [name |-> StepName.data_mapper, type |-> "code",
     config |-> [language |-> "python",
                 function |-> [i \in 1..Len(mapping_params) |->
                     [name |-> mapping_params[i].name,
                      value |-> mapping_params[i].value,
                      path_parts |-> SplitDots(StripBraces(
                                         StrOf(mapping_params[i].value)))]]]]

\* `param in params`
InList(param, params) == \E i \in 1..Len(params) : params[i] = param

HasStep(steps, step_name) == \E i \in 1..Len(steps) : steps[i].name = step_name

\* {{json_parser.output['<name>']}} and {{data_mapper.output['<name>']}}
StepOutput(step_name, param_name) ==
    PyStr(<<"{", "{">> \o step_name \o <<".","o","u","t","p","u","t","[","'">>
          \o param_name \o <<"'","]","}","}">>)

\* the value _create_integration_step gives a parameter
IntegrationParam(param, parameters, action_schema, previous_steps) ==
    IF /\ HasStep(previous_steps, StepName.json_parser)
       /\ InList(param, analyze_parameters(parameters, action_schema).json_params)
    THEN StepOutput(StepName.json_parser, param.name)
    ELSE IF /\ HasStep(previous_steps, StepName.data_mapper)
            /\ InList(param,
                   analyze_parameters(parameters, action_schema).mapping_params)
    THEN StepOutput(StepName.data_mapper, param.name)
    ELSE param.value

\* the dict integration_params: a later parameter of the same name
\* overwrites an earlier one
IntegrationParams(parameters, action_schema, previous_steps) ==
    LET names == {parameters[i].name : i \in 1..Len(parameters)}
        Last(n) == CHOOSE i \in 1..Len(parameters) :
                       /\ parameters[i].name = n
                       /\ \A j \in (i + 1)..Len(parameters) :
                              parameters[j].name # n
    IN  [n \in names |-> IntegrationParam(parameters[Last(n)], parameters,
                                          action_schema, previous_steps)]

\* the integrations whose parameters go under `dynamic`
DynamicIntegrations ==
    {<<"w","e","b","f","l","o","w","_","v","2">>,
     <<"c","o","n","t","e","n","t","f","u","l">>, Word.notion}

\* _adapt_integration_config; action_schema is a dict with integration
\* and action
adapt_integration_config(action_schema, params) ==
    LET integration == action_schema.d.integration
        action == action_schema.d.action
    IN  IF integration \in DynamicIntegrations
        THEN [integration |-> Template(integration \o <<"_">> \o Word.integration),
              action |-> action,
              dynamic |-> params]
        ELSE [integration |-> Template(integration \o <<"_">> \o Word.integration),
              action |-> action,
              parameters |-> params]

\* s.replace(" ", "_")
SpacesToUnderscores(s) == [i \in 1..Len(s) |-> IF s[i] = " " THEN "_" ELSE s[i]]

\* _create_integration_step: raises when action_schema has no
\* integration or action to read
create_integration_step(action_schema, parameters, previous_steps) ==
    IF CannotIndex(action_schema, "integration")
       \/ CannotIndex(action_schema, "action")
    THEN Raises
    ELSE Returns(
        [name |-> action_schema.d.integration \o <<"_">>
                  \o SpacesToUnderscores(Lower(action_schema.d.action)),
         type |-> "integration",
         config |-> adapt_integration_config(action_schema,
                        IntegrationParams(parameters, action_schema,
                                          previous_steps))])

\* selected_action.get(key, default) if selected_action else default
SelectedOr(selected_action, key, default) ==
    IF Truthy(selected_action) THEN Get(selected_action.d, key, default)
    ELSE default

\* the step the node falls back to when _create_integration_step raises
FallbackIntegrationStep(selected_action, parameters) ==
    LET names == {parameters[i].name : i \in 1..Len(parameters)}
    IN  [name |-> StepName.integration_action,
         type |-> "integration",
         config |-> [integration |->
                         SelectedOr(selected_action, "integration", Word.unknown),
                     action |-> SelectedOr(selected_action, "action", Word.unknown),
                     parameters |-> [n \in names |-> Lookup(parameters, n)]]]

\* str.upper() on one character
UpperChar(c) ==
    IF \E i \in 1..Len(LowerChars) : LowerChars[i] = c
    THEN UpperChars[CHOOSE i \in 1..Len(LowerChars) : LowerChars[i] = c]
    ELSE c

IsLetter(c) == \E i \in 1..Len(LowerChars) : c \in {LowerChars[i], UpperChars[i]}

\* str.title(): a letter is upper-cased after a non-letter, else lower-cased
Title(s) ==
    [i \in 1..Len(s) |->
        IF i = 1 \/ ~IsLetter(s[i - 1]) THEN UpperChar(s[i]) ELSE LowerChar(s[i])]

\* _map_interface_to_type
map_interface_to_type(interface) ==
    IF interface \in {"short_text", "long_text", "json", "single_select",
                      "number", "integration"}
    THEN interface
    ELSE IF interface = "dynamic" THEN "json"
    ELSE "short_text"

\* next((p for p in inputs_schema if p["name"] == name), None): the index
\* of the first spec of that name, 0 for None
FirstSpec(inputs_schema, name) ==
    IF \E i \in 1..Len(inputs_schema) : inputs_schema[i].name = name
    THEN CHOOSE i \in 1..Len(inputs_schema) :
             /\ inputs_schema[i].name = name
             /\ \A j \in 1..(i - 1) : inputs_schema[j].name # name
    ELSE 0

\* the authentication entry of the input schema
AuthenticationInput(integration) ==
    [name |-> integration \o <<"_">> \o Word.integration,
     required |-> TRUE,
     type |-> "integration",
     label |-> Title(integration) \o SP \o Title(Word.integration),
     group_id |-> "authentication"]

\* the entry of one parameter bound from the user request
ParameterInput(param, schema_param) ==
    [name |-> param.name,
     required |-> Get(schema_param, "required", FALSE),
     type |-> map_interface_to_type(Get(schema_param, "interface", "short_text")),
     label |-> Get(schema_param, "label", param.name),
     group_id |-> "parameters",
     placeholder |-> Get(schema_param, "placeholder", <<>>),
     test_value |-> param.value,
     options |-> IF "options" \in DOMAIN schema_param
                 THEN PyList(schema_param.options) ELSE PyNone]

RECURSIVE InputsLoop(_, _, _)
InputsLoop(parameters, inputs_schema, inputs) ==
    IF parameters = <<>> THEN inputs
    ELSE LET param == Head(parameters)
             k == FirstSpec(inputs_schema, param.name)
         IN  InputsLoop(Tail(parameters), inputs_schema,
                 IF param.source = "user_request" /\ k # 0
                 THEN Append(inputs, ParameterInput(param, inputs_schema[k]))
                 ELSE inputs)

\* _create_input_schema: raises when action_schema has no integration,
\* or no inputs_schema for a parameter bound from the user request
create_input_schema(parameters, action_schema) ==
    IF CannotIndex(action_schema, "integration") THEN Raises
    ELSE IF /\ \E i \in 1..Len(parameters) :
                   parameters[i].source = "user_request"
            /\ CannotIndex(action_schema, "inputs_schema")
    THEN Raises
    ELSE Returns(InputsLoop(parameters,
                            Get(action_schema.d, "inputs_schema", <<>>),
                            <<AuthenticationInput(action_schema.d.integration)>>))

\* the input schema the node falls back to
FallbackInputSchema(parameters) ==
    [i \in 1..Len(parameters) |->
        [name |-> parameters[i].name, type |-> "text", required |-> TRUE]]

\* _generate_explanation: raises when action_schema has no integration
\* or action; the text is kept as what it is built from
generate_explanation(action_schema, parameters, transformations) ==
    IF CannotIndex(action_schema, "integration")
       \/ CannotIndex(action_schema, "action")
    THEN Raises
    ELSE Returns([integration |-> action_schema.d.integration,
                  action |-> action_schema.d.action,
                  mappings |-> parameters,
                  transformations |-> transformations,
                  steps |-> Len(transformations) + 1])

FallbackExplanation(selected_action, parameters) ==
    [integration |-> SelectedOr(selected_action, "integration", Word.integration),
     count |-> Len(parameters)]

WorkflowGeneratorRun(s) ==
    IF ~IsDict(s) THEN Raises
    ELSE
    LET action_schema == Get(s, "action_schema", PyList(<<>>))
        parameters == Get(s, "parameters", <<>>)
        selected_action == Get(s, "selected_action", PyDict(<<>>))
        schema == PyOr(action_schema, selected_action)
        param_analysis == analyze_parameters(parameters, schema)
        steps1 == IF param_analysis.needs_json_parsing
                  THEN <<create_json_parser_step(param_analysis.json_params)>>
                  ELSE <<>>
        steps2 == IF param_analysis.needs_data_mapping
                  THEN Append(steps1,
                           create_data_mapping_step(param_analysis.mapping_params))
                  ELSE steps1
        transformations_added ==
            (IF param_analysis.needs_json_parsing
             THEN <<"JSON parsing">> ELSE <<>>)
            \o (IF param_analysis.needs_data_mapping
                THEN <<"Data mapping">> ELSE <<>>)
        made == create_integration_step(schema, parameters, steps2)
        integration_step == IF made.raised
                            THEN FallbackIntegrationStep(selected_action, parameters)
                            ELSE made.out
        steps == Append(steps2, integration_step)
        inputs == create_input_schema(parameters, schema)
        input_schema == IF inputs.raised THEN FallbackInputSchema(parameters)
                        ELSE inputs.out
        explained == generate_explanation(schema, parameters, transformations_added)
        explanation == IF explained.raised
                       THEN FallbackExplanation(selected_action, parameters)
                       ELSE explained.out
    IN  Returns(Update(s,
            [workflow_definition |-> [input_schema |-> input_schema,
                                      definition |-> steps],
             transformations_added |-> transformations_added,
             workflow_explanation |-> explanation]))

(***************************************************************************)
(* src/nodes/final_output.py                                               *)
(***************************************************************************)
\* the warnings about the steps, in step order: name, type, config
RECURSIVE StepWarnings(_, _)
StepWarnings(definition, i) ==
    IF i > Len(definition) THEN <<>>
    ELSE (IF "name" \notin DOMAIN definition[i]
          THEN <<[warning |-> "Step missing name", step |-> i - 1]>> ELSE <<>>)
      \o (IF "type" \notin DOMAIN definition[i]
          THEN <<[warning |-> "Step missing type", step |-> i - 1]>> ELSE <<>>)
      \o (IF "config" \notin DOMAIN definition[i]
          THEN <<[warning |-> "Step missing config", step |-> i - 1]>> ELSE <<>>)
      \o StepWarnings(definition, i + 1)

\* _validate_workflow
validate_workflow(workflow) ==
    LET warnings ==
            (IF "input_schema" \notin DOMAIN workflow
             THEN <<[warning |-> "Missing input_schema", step |-> -1]>>
             ELSE <<>>)
         \o (IF "definition" \notin DOMAIN workflow
             THEN <<[warning |-> "Missing definition", step |-> -1]>>
             ELSE IF workflow.definition = <<>>
             THEN <<[warning |-> "Definition is empty", step |-> -1]>>
             ELSE <<>>)
         \o (IF "definition" \in DOMAIN workflow
             THEN StepWarnings(workflow.definition, 1) ELSE <<>>)
    IN  [is_valid |-> Len(warnings) = 0, warnings |-> warnings]

\* StepParamNames without the `elif` for a dynamic config
StepParamNames_parameters_only(step) ==
    IF step.type = "integration" /\ "parameters" \in DOMAIN step.config
    THEN DOMAIN step.config.parameters
    ELSE {}

\* the names _find_unused_optional_params collects from one step
StepParamNames(step) ==
    IF step.type = "integration" /\ "parameters" \in DOMAIN step.config
    THEN DOMAIN step.config.parameters
    ELSE IF step.type = "integration" /\ "dynamic" \in DOMAIN step.config
    THEN DOMAIN step.config.dynamic
    ELSE {}

\* _find_unused_optional_params: raises on an input without a name, on a
\* step without a type, on an integration step without a config and on
\* an action_schema that is None
find_unused_optional_params(workflow, action_schema) ==
    LET input_schema == Get(workflow, "input_schema", <<>>)
        definition == Get(workflow, "definition", <<>>)
    IN  IF \/ \E i \in 1..Len(input_schema) : "name" \notin DOMAIN input_schema[i]
           \/ \E i \in 1..Len(definition) :
                  \/ "type" \notin DOMAIN definition[i]
                  \/ /\ definition[i].type = "integration"
                     /\ "config" \notin DOMAIN definition[i]
           \/ action_schema.py = "None"
        THEN Raises
        ELSE
        LET used_params ==
                {input_schema[i].name : i \in 1..Len(input_schema)}
                \cup UNION {StepParamNames(definition[i]) :
                                i \in 1..Len(definition)}
            inputs_schema == InputsSchemaOf(action_schema)
            Unused(param) == /\ ~Get(param, "required", FALSE)
                             /\ param.name \notin used_params
            unused == SelectSeq(inputs_schema, Unused)
        IN  Returns([i \in 1..Len(unused) |-> unused[i].name])

\* confidence < t/10 and confidence >= t/10
BelowTenths(confidence, t) == confidence.num * 10 < t * confidence.den

\* confidence > t/10
AtLeastTenths_above(confidence, t) == confidence.num * 10 > t * confidence.den

AtLeastTenths(confidence, t) == confidence.num * 10 >= t * confidence.den

FinalOutputRun(s) ==
    IF ~IsDict(s) THEN Raises
    ELSE
    LET workflow == Get(s, "workflow_definition", <<>>)
        action_schema == Get(s, "action_schema", PyList(<<>>))
        confidence == Get(s, "parameter_confidence", Ratio(1, 2))
        explanation == Get(s, "workflow_explanation",
                           "Workflow generated successfully")
        validation_result == validate_workflow(workflow)
        validation_warnings == IF ~validation_result.is_valid
                               THEN validation_result.warnings ELSE <<>>
        found == find_unused_optional_params(workflow, action_schema)
        optional_params == found.out
        suggestions ==
            (IF BelowTenths(confidence, 8)
             THEN <<[text |-> "Consider reviewing the parameter mappings for accuracy",
                     params |-> <<>>]>>
             ELSE <<>>)
            \o (IF optional_params # <<>>
                THEN <<[text |-> "Optional parameters available",
                        params |-> optional_params]>>
                ELSE <<>>)
        status == IF AtLeastTenths(confidence, 7) /\ validation_warnings = <<>>
                  THEN "success" ELSE "needs_review"
    IN  IF found.raised THEN Raises
        ELSE Returns(Update(s,
                [output_result |-> [status |-> status,
                                    workflow |-> workflow,
                                    confidence |-> confidence,
                                    explanation |-> explanation,
                                    suggestions |-> suggestions,
                                    validation_warnings |-> validation_warnings]]))

(***************************************************************************)
(* src/src/graph.py and main.py: one run of the compiled graph             *)
(***************************************************************************)
\* bound of the model: `repairs` stops counting here
MaxRepairs == 3

\* bound of the model: intents of the scorer calls name at most this many
\* parameters
MaxIntentParams == 3

\* initial_state of main.py
InitialState(request, context) ==
    [user_request |-> request,
     refined_query |-> <<>>,
     selected_action |-> PyDict(<<>>),
     action_schema |-> PyDict(<<>>),
     parameters |-> <<>>,
     validation_result |-> <<>>,
     workflow_definition |-> <<>>,
     output_result |-> <<>>,
     context_variables |-> context]

\* no call of the scorer is under way
NoCall == [op |-> "none", done |-> FALSE]

Init ==
    /\ catalog \in Catalogs
    /\ \E request \in Requests, context \in Contexts :
           state = InitialState(request, context)
    /\ node = "query_refiner"
    /\ prev = "START"
    /\ repairs = 0
    /\ call = NoCall

\* what load_integration_actions() can do: return the catalog or raise
LoadOutcomes == {[ok |-> TRUE, actions |-> catalog], [ok |-> FALSE]}

\* the graph runs a node and follows the edge to `next`; an exception
\* ends the run
Step(result, next) ==
    /\ prev' = node
    /\ IF result.raised
       THEN node' = "raised" /\ state' = state
       ELSE node' = next /\ state' = result.out
    /\ UNCHANGED <<catalog, call>>

QueryRefine ==
    /\ node = "query_refiner"
    /\ \E loaded \in LoadOutcomes : Step(QueryRefinerRun(state, loaded), "planner")
    /\ UNCHANGED repairs

Plan ==
    /\ node = "planner"
    /\ \E loaded \in LoadOutcomes :
           \E parsed \in parse_user_request(
                             Get(state, "refined_query", <<>>), catalog) :
               Step(PlannerRun(state, loaded, parsed), "schema_retriever")
    /\ UNCHANGED repairs

SchemaRetrieve ==
    /\ node = "schema_retriever"
    /\ \E loaded \in LoadOutcomes :
           Step(SchemaRetrieverRun(state, loaded), "parameter_generator")
    /\ UNCHANGED repairs

Generate ==
    /\ node = "parameter_generator"
    /\ Step(ParameterGeneratorRun(state), "validator")
    /\ UNCHANGED repairs

\* validation_router without the test of is_valid
validation_router_unchecked(s) == "workflow_generator"

\* validation_router of a graph that repairs once and then goes on
validation_router_single_repair(s) ==
    IF \/ Get(Get(s, "validation_result", <<>>), "is_valid", FALSE)
       \/ Get(s, "repair_applied", FALSE)
    THEN "workflow_generator"
    ELSE "repair"

\* the conditional edge after the validator
validation_router(s) ==
    IF Get(Get(s, "validation_result", <<>>), "is_valid", FALSE)
    THEN "workflow_generator"
    ELSE "repair"

Validate ==
    /\ node = "validator"
    /\ LET result == ParameterValidatorRun(state)
       IN  Step(result, IF result.raised THEN "raised"
                        ELSE validation_router(result.out))
    /\ UNCHANGED repairs

Repair ==
    /\ node = "repair"
    /\ Step(RepairRun(state), "parameter_generator")
    /\ repairs' = Min(repairs + 1, MaxRepairs)

Synthesize ==
    /\ node = "workflow_generator"
    /\ Step(WorkflowGeneratorRun(state), "final_output")
    /\ UNCHANGED repairs

FinalOutput ==
    /\ node = "final_output"
    /\ Step(FinalOutputRun(state), "END")
    /\ UNCHANGED repairs

Next ==
    \/ QueryRefine
    \/ Plan
    \/ SchemaRetrieve
    \/ Generate
    \/ Validate
    \/ Repair
    \/ Synthesize
    \/ FinalOutput

Spec == Init /\ [][Next]_vars

(***************************************************************************)
(* Direct calls of the synthesizer: the graph entered at                   *)
(* workflow_generator with a state holding an action, either as the dict   *)
(* the node's signature declares or as the inputs_schema list              *)
(* schema_retriever stores, and a list of bound parameters.                *)
(***************************************************************************)
\* bound of the model: a direct call binds at most this many parameters
MaxBindings == 2

BindingPool ==
    {[name |-> Word.title, value |-> PyStr(Word.x), source |-> "user_request"],
     [name |-> Word.title, value |-> PyStr(Template(Key.s1_title)), source |-> "context"],
     [name |-> Word.body, value |-> PyStr(Template(Key.s1_body)), source |-> "context"],
     [name |-> Word.meta, value |-> PyStr(<<"{", "}">>), source |-> "default"],
     [name |-> Word.meta, value |-> PyStr(Template(Key.s1_meta)), source |-> "context"],
     [name |-> Word.channel, value |-> PyStr(Template(Word.channel)), source |-> "repair"],
     [name |-> Word.channel, value |-> PyStr(Template(Key.channel_id)), source |-> "context"],
     [name |-> Word.count, value |-> PyInt(<<"3">>), source |-> "default"]}

BindingLists == UNION {[1..n -> BindingPool] : n \in 0..MaxBindings}

DirectState(action, as_list, parameters) ==
    [user_request |-> <<>>,
     context_variables |-> <<>>,
     selected_action |-> PyDict(action),
     action_schema |-> IF as_list THEN PyList(action.inputs_schema)
                       ELSE PyDict(action),
     parameters |-> parameters]

InitDirect ==
    /\ catalog \in Catalogs
    /\ \E i \in 1..Len(catalog), as_list \in BOOLEAN, parameters \in BindingLists :
           state = DirectState(catalog[i], as_list, parameters)
    /\ node = "workflow_generator"
    /\ prev = "START"
    /\ repairs = 0
    /\ call = NoCall

NextDirect ==
    \/ Synthesize
    \/ FinalOutput

SpecDirect == InitDirect /\ [][NextDirect]_vars

(***************************************************************************)
(* Direct calls of calculate_action_relevance                              *)
(***************************************************************************)
IntentParamPool == <<Word.title, Word.channel, Word.body, Word.name, Word.count>>

IntentParamNames == {IntentParamPool[i] : i \in 1..MaxIntentParams}

OptionalWords(words) == {PyNone, PyStr(<<>>)} \cup {PyStr(w) : w \in words}

ParsedRequests ==
    {[platform |-> PyNone, action_intent |-> a, entity_type |-> e,
      parameters |-> [k \in keys |-> PyStr(Word.x)]] :
        a \in OptionalWords({Word.send, Word.create, <<"S","E","N","D">>}),
        e \in OptionalWords({Word.message, Word.page, Word.post}),
        keys \in SUBSET IntentParamNames}

InitScore ==
    /\ catalog \in Catalogs
    /\ state = <<>>
    /\ node = "idle"
    /\ prev = "START"
    /\ repairs = 0
    /\ \E i \in 1..Len(catalog), parsed_request \in ParsedRequests :
           call = [op |-> "calculate_action_relevance", done |-> FALSE,
                   action |-> catalog[i], parsed_request |-> parsed_request]

ScoreCall ==
    /\ call.op = "calculate_action_relevance"
    /\ ~call.done
    /\ call' = [op |-> call.op, done |-> TRUE,
                action |-> call.action, parsed_request |-> call.parsed_request,
                score |-> calculate_action_relevance(call.action,
                                                     call.parsed_request)]
    /\ UNCHANGED <<state, node, prev, repairs, catalog>>

NextScore == ScoreCall

SpecScore == InitScore /\ [][NextScore]_vars

(***************************************************************************)
(* Direct calls of single operations: `call` holds the operation, its      *)
(* arguments and, once done, its outcome                                   *)
(***************************************************************************)
\* bound of the model: a catalog handed to the selector registers at most
\* this many actions
MaxActions == 3

\* catalogs for the selector: actions of one platform with a fourth of
\* another platform, registered in every order
SelectorCatalogs ==
    LET pool == {Action.NotionCreatePage, Action.NotionListPages,
                 [Action.WordpressCreatePost EXCEPT !.integration = Word.notion],
                 Action.SlackSendMessage}
    IN  {list \in UNION {[1..n -> pool] : n \in 0..MaxActions} :
            \A i, j \in DOMAIN list : list[i] = list[j] => i = j}

\* parse_user_request leaves platform None when it finds none
SelectorRequests ==
    {[platform |-> platform, action_intent |-> action_intent,
      entity_type |-> PyStr(entity_type),
      parameters |-> [k \in keys |-> PyStr(Word.x)]] :
        platform \in {PyNone, PyStr(<<>>), PyStr(<<"N","O","T","I","O","N">>),
                      PyStr(Word.webflow)},
        action_intent \in {PyNone, PyStr(Word.create)},
        entity_type \in {Word.page, Word.post},
        keys \in {{}, {Word.title, Word.body}}}

\* bound of the model: a string handed to the validator as the value of a
\* number parameter has at most this many characters
MaxValueLen == 5

\* values for a parameter of interface number: ints, None, the
\* placeholder of Repair and strings
NumberInputs ==
    {PyInt(<<"3">>), PyInt(<<"-", "5">>), PyNone, PyStr(Template(Word.count))}
    \cup {PyStr(s) : s \in UNION {[1..n -> {"4", "2", ".", "-"}] :
                                      n \in 0..MaxValueLen}}

\* src/tracking.py: the wrapper of PerformanceTracker.track_execution run
\* once.  `outcome` is what the wrapped stage does, [raised, out] or
\* [raised, error]; `sink` is what config.log_to_wandb does: "idle" (no
\* wandb run), "logged", or "raises".  The result is the wrapper's
\* outcome, the metrics dict and what was logged; an exception raised in
\* the finally block replaces the return value or the exception under way.
\* Times are left out.
track_execution(metrics, step_name, outcome, sink) ==
    LET success == ~outcome.raised
        error == IF success THEN PyNone ELSE PyStr(outcome.error)
        entry == Get(metrics, step_name, [executions |-> 0, successes |-> 0])
        counted == [executions |-> entry.executions + 1,
                    successes |-> entry.successes + IF success THEN 1 ELSE 0]
    IN  IF sink = "raises"
        THEN [result |-> [raised |-> TRUE, error |-> "log_to_wandb"],
              metrics |-> metrics,
              logged |-> <<>>]
        ELSE [result |-> outcome,
              metrics |-> Update(metrics, [k \in {step_name} |-> counted]),
              logged |-> IF sink = "logged"
                         THEN <<[step_name |-> step_name, success |-> success,
                                 error |-> error]>>
                         ELSE <<>>]

\* calls of a tracked stage: a stage that returns or raises, each outcome
\* of the sink, and metrics with or without an entry for the stage
TrackedCalls ==
    {[op |-> "track_execution", done |-> FALSE, step_name |-> step_name,
      outcome |-> outcome, sink |-> sink, metrics |-> metrics] :
        step_name \in {"planner", "validator"},
        outcome \in {Returns([platform |-> PyNone]),
                     [raised |-> TRUE, error |-> "stage"]},
        sink \in {"idle", "logged", "raises"},
        metrics \in {<<>>,
                     [k \in {"planner"} |->
                         [executions |-> 2, successes |-> 1]]}}

\* bound of the model: a workflow handed to the final node has at most
\* this many steps
MaxSteps == 2

\* steps for the final node: an integration step with every subset of
\* the keys name, type and config, and a whole code step
StepPool ==
    LET step == [name |-> StepName.integration_action,
                 type |-> "integration",
                 config |-> [parameters |-> [k \in {Word.title} |->
                                                PyStr(Word.x)]]]
    IN  {[k \in keys |-> step[k]] : keys \in SUBSET {"name", "type", "config"}}
        \cup {[name |-> StepName.json_parser, type |-> "code",
               config |-> <<>>]}

\* states for the final node: a workflow with or without its two keys,
\* and a confidence or none
FinalStates ==
    {[workflow_definition |->
          [k \in keys |-> IF k = "definition" THEN definition
                          ELSE <<[name |-> Word.title]>>],
      action_schema |-> PyList(Action.NotionCreatePage.inputs_schema)]
     @@ confidence :
        keys \in SUBSET {"input_schema", "definition"},
        definition \in UNION {[1..n -> StepPool] : n \in 0..MaxSteps},
        confidence \in {<<>>} \cup {[parameter_confidence |-> Ratio(t, 10)] :
                                        t \in {6, 7, 8, 10}}}

\* bound of the model: a schema handed to the generator has at most this
\* many parameter specs
MaxSpecs == 2

\* states for the generator: a schema of distinct specs, taken from the
\* specs of the catalog and a second, optional spec named title whose
\* test value is a text; a context, among them two with two keys that
\* contain "title" and one with a key that contains "meta"; and a request
\* with or without a quoted title
GeneratorStates ==
    LET specs == {ParamSpec[k] : k \in DOMAIN ParamSpec}
                 \cup {[name |-> Word.title, interface |-> "number",
                        test_value |-> PyStr(ErrorText.missing)]}
        schemas == {list \in UNION {[1..n -> specs] : n \in 0..MaxSpecs} :
                       \A i, j \in DOMAIN list : list[i] = list[j] => i = j}
        page_title == <<"p","a","g","e","_">> \o Word.title
        titles == <<[key |-> Key.s1_title, value |-> PyStr(Word.x)],
                    [key |-> page_title, value |-> PyStr(Word.x)]>>
        metas == <<[key |-> Key.s1_meta, value |-> PyStr(Word.x)]>>
        contexts == Contexts \cup {titles, <<titles[2], titles[1]>>, metas}
    IN  {[DirectState([integration |-> Word.notion,
                       action |-> ActionName.CreatePage,
                       definition |-> <<>>, inputs_schema |-> schema],
                      as_list, <<>>)
             EXCEPT !.user_request = request,
                    !.context_variables = context] :
            schema \in schemas, as_list \in BOOLEAN, context \in contexts,
            request \in {Request.empty, Request.notion_page}}

InitCalls ==
    /\ prev = "START"
    /\ repairs = 0
    /\ \/ /\ catalog \in SelectorCatalogs
          /\ state = <<>>
          /\ node = "idle"
          /\ \E parsed_request \in SelectorRequests :
                 call = [op |-> "select_integration_action", done |-> FALSE,
                         parsed_request |-> parsed_request]
       \/ /\ catalog = FullCatalog
          /\ node = "validator"
          /\ call = [op |-> "ParameterValidatorTool._run", done |-> FALSE]
          /\ \E value \in NumberInputs :
                 state = DirectState(
                     [Action.SlackSendReminder EXCEPT
                          !.inputs_schema = <<ParamSpec.count>>],
                     TRUE,
                     <<[name |-> Word.count, value |-> value,
                        source |-> "user_request"]>>)
       \/ /\ catalog = FullCatalog
          /\ node = "validator"
          /\ call = [op |-> "RepairNode._run", done |-> FALSE]
          /\ \E i \in 1..Len(catalog), parameters \in BindingLists :
                 state = DirectState(catalog[i], TRUE, parameters)
       \/ /\ catalog = FullCatalog
          /\ node = "final_output"
          /\ call = [op |-> "FinalOutputNode._run", done |-> FALSE]
          /\ state \in FinalStates
       \/ /\ catalog = FullCatalog
          /\ state = <<>>
          /\ node = "idle"
          /\ call \in TrackedCalls
       \/ /\ catalog = FullCatalog
          /\ node = "parameter_generator"
          /\ call = [op |-> "ParameterGeneratorTool._run", done |-> FALSE]
          /\ state \in GeneratorStates

Select ==
    /\ call.op = "select_integration_action"
    /\ ~call.done
    /\ call' = [op |-> call.op, done |-> TRUE,
                parsed_request |-> call.parsed_request,
                result |-> select_integration_action(call.parsed_request,
                                                     catalog)]
    /\ UNCHANGED <<state, node, prev, repairs, catalog>>

\* RepairNode._run called again on the state its first call returned
RepairAgain ==
    /\ call.op = "RepairNode._run"
    /\ ~call.done
    /\ prev = "repair"
    /\ state' = RepairRun(state).out
    /\ call' = [call EXCEPT !.done = TRUE]
    /\ UNCHANGED <<node, prev, repairs, catalog>>

Track ==
    /\ call.op = "track_execution"
    /\ ~call.done
    /\ LET tracked == track_execution(call.metrics, call.step_name,
                                      call.outcome, call.sink)
       IN  call' = [call EXCEPT !.done = TRUE, !.metrics = tracked.metrics]
                   @@ [result |-> tracked.result, logged |-> tracked.logged]
    /\ UNCHANGED <<state, node, prev, repairs, catalog>>

NextCalls ==
    \/ Select
    \/ Generate
    \/ Validate
    \/ Repair
    \/ RepairAgain
    \/ Synthesize
    \/ FinalOutput
    \/ Track

SpecCalls == InitCalls /\ [][NextCalls]_vars

(***************************************************************************)
(* Properties                                                              *)
(***************************************************************************)
\* the validation result of a state says is_valid = true
IsValid(s) ==
    /\ "validation_result" \in DOMAIN s
    /\ "is_valid" \in DOMAIN s.validation_result
    /\ s.validation_result.is_valid

\* the schema and the bindings of a state
SchemaIn(s) == InputsSchemaOf(s.action_schema)

RequiredCount(schema) ==
    Cardinality({i \in 1..Len(schema) : Get(schema[i], "required", FALSE)})

\* C1: in a run where Repair handled only "Required parameter is missing"
\* errors, the Validate pass that follows the repair reports
\* is_valid = true and the run goes on to Synthesize.
C1_RepairedRunValidates ==
    (/\ prev = "validator"
     /\ Get(state, "repair_applied", FALSE)
     /\ \A i \in 1..Len(state.repair_suggestions) :
            Contains(state.repair_suggestions[i], SuggestionText.provide))
    => (IsValid(state) /\ node = "workflow_generator")

\* C2: a run makes at most one repair pass.
C2_AtMostOneRepairPass == repairs <= 1

\* C3: once SchemaRetrieve has found no platform, the run has ended there:
\* Generate, Validate, Synthesize and FinalOutput have not run, no
\* workflow was synthesized and no `success` status was produced.
C3_NoPlatformEndsAtSchemaRetrieve ==
    (IsDict(state) /\ Get(state, "error", "") = "No platform identified")
    => /\ prev = "schema_retriever"
       /\ state.workflow_definition = <<>>
       /\ state.output_result = <<>>

\* C4: the stages run in the order query_refiner, planner,
\* schema_retriever, parameter_generator, validator; workflow_generator is
\* entered only from a validator whose result is valid, repair only from
\* a validator whose result is not valid, repair is followed by
\* parameter_generator, and final_output is entered only from
\* workflow_generator.
C4_StageOrder ==
    [][/\ node = "query_refiner" => node' = "planner"
       /\ node = "planner" => node' = "schema_retriever"
       /\ node = "schema_retriever" => node' \in {"parameter_generator", "raised"}
       /\ node = "parameter_generator" => node' \in {"validator", "raised"}
       /\ node = "validator" => node' \in {"workflow_generator", "repair"}
       /\ node' = "workflow_generator" => node = "validator" /\ IsValid(state')
       /\ node' = "repair" => node = "validator" /\ ~IsValid(state')
       /\ node = "repair" => node' = "parameter_generator"
       /\ node = "workflow_generator" => node' = "final_output"
       /\ node' = "final_output" => node = "workflow_generator"
       /\ node = "final_output" => node' = "END"]_vars

C4_Witness ==
    /\ prev = "repair"
    /\ node = "parameter_generator"
    /\ ~IsValid(state)

\* the integration step of the workflow in a state
IntegrationStepOf(s) ==
    s.workflow_definition.definition[Len(s.workflow_definition.definition)]

\* C5: the config of the integration step synthesized for an action of
\* notion, webflow_v2 or contentful has a `dynamic` key and no
\* `parameters` key; for any other integration it has `parameters` and
\* no `dynamic`.
C5_ConfigShape ==
    (/\ prev = "workflow_generator"
     /\ Truthy(state.selected_action))
    => LET config == IntegrationStepOf(state).config
       IN  IF state.selected_action.d.integration \in DynamicIntegrations
           THEN "dynamic" \in DOMAIN config /\ "parameters" \notin DOMAIN config
           ELSE "parameters" \in DOMAIN config /\ "dynamic" \notin DOMAIN config

\* the bindings whose source is user_request, in binding order
FromUserRequest(parameters) ==
    LET IsUser(param) == param.source = "user_request"
    IN  SelectSeq(parameters, IsUser)

\* C6: the input_schema of a synthesized workflow starts with the one
\* required `integration` entry named <integration>_integration and is
\* followed by exactly the bindings whose source is user_request, in
\* binding order.
C6_InputSchemaShape ==
    (/\ prev = "workflow_generator"
     /\ Truthy(state.selected_action))
    => LET inputs == state.workflow_definition.input_schema
           users == FromUserRequest(state.parameters)
       IN  /\ Len(inputs) = Len(users) + 1
           /\ inputs[1].name = state.selected_action.d.integration
                               \o <<"_">> \o Word.integration
           /\ inputs[1].type = "integration"
           /\ inputs[1].required
           /\ \A i \in 1..Len(users) :
                  /\ inputs[i + 1].name = users[i].name
                  /\ inputs[i + 1].type # "integration"

\* C7: a synthesized definition has exactly one `integration` step, the
\* last one; before it come at most a json_parser and then a data_mapper
\* code step, each present iff some bound parameter needs it.
C7_StepStructure ==
    prev = "workflow_generator"
    => LET definition == state.workflow_definition.definition
           n == Len(definition)
           schema == AnalyzedSchema(PyOr(state.action_schema,
                                         state.selected_action))
           json == \E i \in 1..Len(state.parameters) :
                       NeedsJsonParsing(state.parameters[i], schema)
           mapping == \E i \in 1..Len(state.parameters) :
                          NeedsDataMapping(state.parameters[i])
           code == [i \in 1..(n - 1) |-> definition[i].name]
       IN  /\ n >= 1
           /\ definition[n].type = "integration"
           /\ \A i \in 1..(n - 1) : definition[i].type = "code"
           /\ code = (IF json THEN <<StepName.json_parser>> ELSE <<>>)
                     \o (IF mapping THEN <<StepName.data_mapper>> ELSE <<>>)

C7_Witness ==
    /\ prev = "workflow_generator"
    /\ Len(state.workflow_definition.definition) = 3
    /\ state.workflow_definition.definition[1].name = StepName.json_parser
    /\ state.workflow_definition.definition[2].name = StepName.data_mapper
    /\ state.workflow_definition.definition[3].type = "integration"
    /\ Len(state.parameters) = 1

\* C8: a schema parameter whose name is a key of the parameters extracted
\* from the request is bound to the extracted value with source
\* user_request, and has no binding from any other source, also when a
\* context key contains its name.
C8_UserTextWins ==
    (prev = "parameter_generator" /\ node = "validator")
    => LET schema == SchemaIn(state)
           extracted == extract_parameters_from_request(state.user_request)
           parameters == state.parameters
       IN  \A i \in 1..Len(schema) :
               schema[i].name \in DOMAIN extracted
               => /\ \E j \in 1..Len(parameters) :
                         parameters[j] = [name |-> schema[i].name,
                                          value |-> extracted[schema[i].name],
                                          source |-> "user_request"]
                  /\ \A j \in 1..Len(parameters) :
                         parameters[j].name = schema[i].name
                         => parameters[j].source = "user_request"

C8_Witness ==
    /\ prev = "parameter_generator"
    /\ node = "validator"
    /\ \E j \in 1..Len(state.parameters) :
           /\ state.parameters[j].source = "user_request"
           /\ ContextMatch(state.parameters[j].name,
                           state.context_variables) # 0

\* C9: the confidence of Generate is 1 when the schema has no required
\* parameter and (required - missing) / required otherwise; missing never
\* exceeds required and the confidence lies in [0, 1].
C9_Confidence ==
    (prev = "parameter_generator" /\ node = "validator")
    => LET required == RequiredCount(SchemaIn(state))
           missing == Len(state.missing_parameters)
           confidence == state.parameter_confidence
       IN  /\ missing <= required
           /\ confidence.den > 0
           /\ 0 <= confidence.num /\ confidence.num <= confidence.den
           /\ required = 0 => confidence.num = confidence.den
           /\ required > 0 =>
                  confidence.num * required = (required - missing) * confidence.den

C9_Witness ==
    /\ prev = "parameter_generator"
    /\ node = "validator"
    /\ RequiredCount(SchemaIn(state)) = 2
    /\ Len(state.missing_parameters) = 1
    /\ state.parameter_confidence.num * 2 = state.parameter_confidence.den

\* word is a non-empty substring of the action name, case-insensitively
NamedIn(action, word) ==
    /\ word.py = "str"
    /\ word.s # <<>>
    /\ Contains(Lower(action.action), Lower(word.s))

\* the parameter names an intent shares with the schema of an action
SharedParams(action, parsed_request) ==
    {k \in DOMAIN parsed_request.parameters :
        \E i \in 1..Len(action.inputs_schema) : action.inputs_schema[i].name = k}

\* C10: the score is min(1, 0.4 [intent named] + 0.4 [entity named]
\* + 0.2 shared / named parameters), the last term 0 for an intent
\* without parameters, and lies in [0, 1]; an absent or empty intent
\* field adds nothing.  The score is a double: it is at most 1.0 and
\* within 2^-28 of the double nearest to the value of the formula.
C10_ScoreFormula ==
    (call.op = "calculate_action_relevance" /\ call.done)
    => LET n == Cardinality(DOMAIN call.parsed_request.parameters)
           scale == IF n = 0 THEN 1 ELSE n
           tenths == (IF NamedIn(call.action, call.parsed_request.action_intent)
                      THEN 4 * scale ELSE 0)
                   + (IF NamedIn(call.action, call.parsed_request.entity_type)
                      THEN 4 * scale ELSE 0)
                   + (IF n = 0 THEN 0
                      ELSE 2 * Cardinality(SharedParams(call.action,
                                                        call.parsed_request)))
           value == FloatOf(Min(tenths, 10 * scale), 10 * scale)
           distance == IF FLess(call.score, value)
                       THEN FSub(value, call.score)
                       ELSE FSub(call.score, value)
       IN  /\ ~FLess(FloatOf(1, 1), call.score)
           /\ FLess(distance, [m |-> <<0, 0, 0, 0, 1>>, e |-> -80])

C10_Witness ==
    /\ call.op = "calculate_action_relevance"
    /\ call.done
    /\ call.parsed_request.action_intent = PyNone
    /\ call.parsed_request.entity_type = PyStr(<<>>)
    /\ Cardinality(SharedParams(call.action, call.parsed_request)) = 1
    /\ Cardinality(DOMAIN call.parsed_request.parameters) = 2
    /\ call.score = FloatOf(1, 10)

(***************************************************************************)
(* Direct calls of select_integration_action                               *)
(***************************************************************************)
\* the selector returned a match
Selected ==
    /\ call.op = "select_integration_action"
    /\ call.done
    /\ ~call.result.raised
    /\ call.result.out.status # "error"

\* the catalog's actions of the requested platform, in catalog order
Candidates ==
    LET IsPlatform(action) ==
            Lower(action.integration) = Lower(call.parsed_request.platform.s)
    IN  SelectSeq(catalog, IsPlatform)

\* the place of an action among the candidates
Position(action) ==
    CHOOSE i \in 1..Len(Candidates) : Candidates[i] = action

\* the ranking the result shows: the match, then the alternatives
Ranked == <<call.result.out.action.d>> \o call.result.out.alternatives

\* C11: candidates of equal relevance score are ranked in catalog order.
\* The match is the first registered of the candidates of highest score,
\* and of two candidates the result ranks next to each other with equal
\* scores the one registered first comes first.
C11_TiesKeepCatalogOrder ==
    Selected
    => LET Score(action) ==
               calculate_action_relevance(action, call.parsed_request)
       IN  /\ \A i \in 1..Len(Candidates) :
                  \/ FLess(Score(Candidates[i]), Score(Ranked[1]))
                  \/ /\ Score(Candidates[i]) = Score(Ranked[1])
                     /\ Position(Ranked[1]) <= i
           /\ \A k \in 1..(Len(Ranked) - 1) :
                  Score(Ranked[k]) = Score(Ranked[k + 1])
                  => Position(Ranked[k]) < Position(Ranked[k + 1])

C11_Witness ==
    /\ Selected
    /\ Len(Ranked) = 3
    /\ calculate_action_relevance(Ranked[2], call.parsed_request)
           = call.result.out.confidence
    /\ calculate_action_relevance(Ranked[3], call.parsed_request)
           # call.result.out.confidence

\* C12: the selector asks for clarification exactly when the platform has
\* at least two candidates and the double subtraction top score - second
\* score gives less than the double 0.3.  Then the alternatives are the
\* candidates ranked second and third (the second alone when there are
\* two); otherwise there is no alternative.
C12_ClarificationGap ==
    Selected
    => LET n == Len(Candidates)
           Holds(score) ==
               LET Better(j, i) == \/ FLess(score[i], score[j])
                                   \/ score[i] = score[j] /\ j < i
                   Place(k) ==
                       CHOOSE i \in 1..n :
                           Cardinality({j \in 1..n : Better(j, i)}) = k - 1
                   close == /\ n >= 2
                            /\ FLess(FSub(score[Place(1)], score[Place(2)]),
                                     FloatOf(3, 10))
               IN  /\ call.result.out.needs_clarification = close
                   /\ call.result.out.alternatives
                          = IF close
                            THEN [k \in 1..Min(2, n - 1) |->
                                     Candidates[Place(k + 1)]]
                            ELSE <<>>
       IN  Once(Holds, [i \in 1..n |->
                           calculate_action_relevance(Candidates[i],
                                                      call.parsed_request)])

\* three candidates whose first two scores are the doubles 0.9 and
\* 0.4 + 0.2 * (2 / 2) = 0.6000000000000001
C12_Witness ==
    /\ Selected
    /\ call.result.out.needs_clarification
    /\ Len(call.result.out.alternatives) = 2
    /\ call.result.out.confidence = FloatOf(9, 10)
    /\ calculate_action_relevance(Ranked[2], call.parsed_request)
           = FAdd(FloatOf(4, 10), FMul(FloatOf(2, 10), FloatOf(2, 2)))

\* C13: a call whose platform is None, empty, or the integration of no
\* catalog action (compared in lower case) returns without raising, with
\* status "error", no matched action and no clarification.
C13_NoPlatformMatchIsAnError ==
    (/\ call.op = "select_integration_action"
     /\ call.done
     /\ \/ ~TruthyStr(call.parsed_request.platform)
        \/ Candidates = <<>>)
    => /\ ~call.result.raised
       /\ call.result.out.status = "error"
       /\ call.result.out.action = PyNone
       /\ \/ "needs_clarification" \notin DOMAIN call.result.out
          \/ ~call.result.out.needs_clarification

(***************************************************************************)
(* Direct calls of the validator on one parameter of interface number      *)
(***************************************************************************)
\* the validator returned in a run entered at the validator
Validated == prev = "validator" /\ node # "raised"

\* C14: for a parameter of interface number a string is valid exactly
\* when it has at most one decimal point and is, without it, a non-empty
\* run of digits; an int is valid; every other value gets the error
\* "Expected a number, got: <value>".
C14_NumberInterface ==
    (Validated /\ call.op = "ParameterValidatorTool._run")
    => LET value == state.parameters[1].value
           Points(s) == {i \in 1..Len(s) : s[i] = "."}
           accepted ==
               \/ value.py = "int"
               \/ /\ value.py = "str"
                  /\ Cardinality(Points(value.s)) <= 1
                  /\ \A i \in (1..Len(value.s)) \ Points(value.s) :
                         value.s[i] \in Digits
                  /\ (1..Len(value.s)) \ Points(value.s) # {}
       IN  /\ state.validation_result.is_valid = accepted
           /\ state.validation_result.errors
                  = IF accepted THEN <<>>
                    ELSE <<[parameter |-> Word.count,
                            error |-> ErrorText.number \o StrOf(value),
                            suggestion |-> SuggestionText.numeric]>>

C14_Witness ==
    /\ Validated
    /\ call.op = "ParameterValidatorTool._run"
    /\ state.parameters[1].value = PyStr(<<"4", ".", "2", ".", "2">>)
    /\ ~state.validation_result.is_valid

(***************************************************************************)
(* Direct calls of the repair node, twice on one list of errors            *)
(***************************************************************************)
\* the bindings the repair node made for a parameter
RepairBindings(name) ==
    {i \in 1..Len(state.parameters) :
        /\ state.parameters[i].name = name
        /\ state.parameters[i].source = "repair"}

\* C15: after the repair node ran twice on one unmodified list of errors,
\* the second time on the parameters the first run returned, every
\* parameter reported missing has exactly one binding of source `repair`.
C15_RepairTwiceBindsOnce ==
    (call.op = "RepairNode._run" /\ call.done)
    => \A k \in 1..Len(state.validation_result.errors) :
           Contains(state.validation_result.errors[k].error, ErrorText.missing)
           => Cardinality(RepairBindings(
                  state.validation_result.errors[k].parameter)) = 1

(***************************************************************************)
(* Direct calls of the final node                                          *)
(***************************************************************************)
\* the final node was called and returned or raised
Finalized == call.op = "FinalOutputNode._run" /\ prev = "final_output"

WarningsOf(text) ==
    {k \in 1..Len(state.output_result.validation_warnings) :
        state.output_result.validation_warnings[k].warning = text}

\* C17: for a workflow with a structural defect (no input_schema, no
\* definition, or a step without name, type or config) the final node
\* does not raise: it returns status "needs_review" and a warning that
\* names each defect.
C17_DefectiveWorkflowIsReviewed ==
    LET workflow == state.workflow_definition
        definition == Get(workflow, "definition", <<>>)
        Lacking(key) == {i \in 1..Len(definition) :
                            key \notin DOMAIN definition[i]}
    IN  (/\ Finalized
         /\ \/ "input_schema" \notin DOMAIN workflow
            \/ "definition" \notin DOMAIN workflow
            \/ \E key \in {"name", "type", "config"} : Lacking(key) # {})
        => /\ node = "END"
           /\ state.output_result.status = "needs_review"
           /\ "input_schema" \notin DOMAIN workflow
              => WarningsOf("Missing input_schema") # {}
           /\ "definition" \notin DOMAIN workflow
              => WarningsOf("Missing definition") # {}
           /\ Cardinality(WarningsOf("Step missing name"))
                  = Cardinality(Lacking("name"))
           /\ Cardinality(WarningsOf("Step missing type"))
                  = Cardinality(Lacking("type"))
           /\ Cardinality(WarningsOf("Step missing config"))
                  = Cardinality(Lacking("config"))

(***************************************************************************)
(* Failures of load_integration_actions in a run of the graph              *)
(***************************************************************************)
\* a step of a stage whose call of load_integration_actions raises
LoadFailureStep ==
    LET failed == [ok |-> FALSE]
    IN  /\ IsDict(state)
        /\ \/ /\ node = "query_refiner"
              /\ Get(state, "user_request", <<>>) # <<>>
              /\ Step(QueryRefinerRun(state, failed), "planner")
           \/ /\ node = "planner"
              /\ Get(state, "refined_query",
                     Get(state, "user_request", <<>>)) # <<>>
              /\ Step(PlannerRun(state, failed, <<>>), "schema_retriever")
           \/ /\ node = "schema_retriever"
              /\ TruthyStr(Get(state, "platform", PyStr(<<>>)))
              /\ Step(SchemaRetrieverRun(state, failed), "parameter_generator")

\* C18: when load_integration_actions fails in the query refiner, the
\* planner or the schema retriever, the stage catches the failure: no
\* exception leaves the stage and the state it returns carries an error
\* message.
C18_LoadFailureIsCaught ==
    [][LoadFailureStep => (node' # "raised" /\ "error" \in DOMAIN state')]_vars

(***************************************************************************)
(* Calls of a stage wrapped by PerformanceTracker.track_execution          *)
(***************************************************************************)
\* C20: when the sink fails while a tracked stage is recorded, the
\* wrapper still ends as the stage did, with the stage's return value or
\* the stage's own exception, and the failure of the sink is not raised.
C20_SinkFailureIsSwallowed ==
    (call.op = "track_execution" /\ call.done /\ call.sink = "raises")
    => call.result = call.outcome

(***************************************************************************)
(* Two runs of one agent, interleaved stage by stage.  The agent's nodes   *)
(* are built once and hold no state of a run; each invoke() is given its   *)
(* own state dict.  The run whose stage is executing is kept in state,     *)
(* node, prev and repairs, the run that waits in call.waiting; Switch      *)
(* hands the processor to the waiting run between two stages, and          *)
(* call.midway records that it did so while both runs were under way.      *)
(***************************************************************************)
\* the place of a run: its state dict and where the graph is with it
Place(s, n, p, r) == [state |-> s, node |-> n, prev |-> p, repairs |-> r]

\* the initial_state dicts main.py builds for the requests run together
PairRuns ==
    {Place(InitialState(Request.send_slack, Ctx.chat),
           "query_refiner", "START", 0),
     Place(InitialState(Request.notion_page, Ctx.seo),
           "query_refiner", "START", 0),
     Place(InitialState(Request.wp_post, Ctx.empty),
           "query_refiner", "START", 0)}

InitPair ==
    /\ catalog \in Catalogs
    /\ \E first \in PairRuns, second \in PairRuns :
           /\ state = first.state
           /\ call = [op |-> "interleaved", done |-> FALSE, origin |-> first,
                      waiting |-> [origin |-> second, at |-> second],
                      midway |-> FALSE]
    /\ node = "query_refiner"
    /\ prev = "START"
    /\ repairs = 0

\* both runs have started and neither has ended: a switch now puts stages
\* of one run between two stages of the other
Midway ==
    /\ prev # "START" /\ node \notin {"END", "raised"}
    /\ call.waiting.at.prev # "START"
    /\ call.waiting.at.node \notin {"END", "raised"}

\* a switch that leaves the parameters of the run that was executing in
\* the state of the run that resumes, as nodes keeping the last state would
Switch_shared_parameters ==
    /\ call.op = "interleaved"
    /\ state' = IF IsDict(state) /\ IsDict(call.waiting.at.state)
                THEN Update(call.waiting.at.state,
                            [parameters |-> state.parameters])
                ELSE call.waiting.at.state
    /\ node' = call.waiting.at.node
    /\ prev' = call.waiting.at.prev
    /\ repairs' = call.waiting.at.repairs
    /\ call' = [call EXCEPT !.origin = call.waiting.origin,
                            !.waiting = [origin |-> call.origin,
                                         at |-> Place(state, node, prev,
                                                      repairs)],
                            !.midway = @ \/ Midway]
    /\ UNCHANGED catalog

\* the scheduler lets the waiting run execute its next stage
Switch ==
    /\ call.op = "interleaved"
    /\ state' = call.waiting.at.state
    /\ node' = call.waiting.at.node
    /\ prev' = call.waiting.at.prev
    /\ repairs' = call.waiting.at.repairs
    /\ call' = [call EXCEPT !.origin = call.waiting.origin,
                            !.waiting = [origin |-> call.origin,
                                         at |-> Place(state, node, prev,
                                                      repairs)],
                            !.midway = @ \/ Midway]
    /\ UNCHANGED catalog

NextPair == Next \/ Switch

SpecPair == InitPair /\ [][NextPair]_vars

\* the places one stage takes a run at place c to when it runs alone:
\* the node of c.node applied to c.state, then the edge of the graph
AloneNext(c) ==
    LET Loads == {[ok |-> TRUE, actions |-> FullCatalog], [ok |-> FALSE]}
        To(result, next, count) ==
            IF result.raised
            THEN Place(c.state, "raised", c.node, count)
            ELSE Place(result.out, next, c.node, count)
    IN  CASE c.node = "query_refiner" ->
                 {To(QueryRefinerRun(c.state, l), "planner", c.repairs) :
                      l \in Loads}
          [] c.node = "planner" ->
                 UNION {{To(PlannerRun(c.state, l, p), "schema_retriever",
                            c.repairs) :
                             p \in parse_user_request(
                                       Get(c.state, "refined_query", <<>>),
                                       FullCatalog)} : l \in Loads}
          [] c.node = "schema_retriever" ->
                 {To(SchemaRetrieverRun(c.state, l), "parameter_generator",
                     c.repairs) : l \in Loads}
          [] c.node = "parameter_generator" ->
                 {To(ParameterGeneratorRun(c.state), "validator", c.repairs)}
          [] c.node = "validator" ->
                 {To(r, IF r.raised THEN "raised" ELSE validation_router(r.out),
                     c.repairs) : r \in {ParameterValidatorRun(c.state)}}
          [] c.node = "repair" ->
                 {To(RepairRun(c.state), "parameter_generator",
                     Min(c.repairs + 1, MaxRepairs))}
          [] c.node = "workflow_generator" ->
                 {To(WorkflowGeneratorRun(c.state), "final_output", c.repairs)}
          [] c.node = "final_output" ->
                 {To(FinalOutputRun(c.state), "END", c.repairs)}
          [] OTHER -> {}

\* the places a run reaches alone from the places in `seen`, `frontier`
\* being those of them whose stage has not been followed yet
RECURSIVE AloneReach(_, _)
AloneReach(frontier, seen) ==
    LET Grow(new) == IF new = {} THEN seen
                     ELSE AloneReach(new, seen \cup new)
    IN  Once(Grow, UNION {AloneNext(c) : c \in frontier} \ seen)

\* for each run of PairRuns, the places it reaches when it runs alone
AloneRuns == [origin \in PairRuns |-> AloneReach({origin}, {origin})]

UniqueNames(schema) ==
    \A i, j \in 1..Len(schema) : schema[i].name = schema[j].name => i = j

\* the parameters for which a validation result reports
\* "Required parameter is missing"
ReportedMissing(s) ==
    {s.validation_result.errors[k].parameter :
        k \in {k \in 1..Len(s.validation_result.errors) :
                  s.validation_result.errors[k].error = ErrorText.missing}}

\* C21: for a schema with unique parameter names, the names Generate
\* recorded in missing_parameters are exactly the parameters for which the
\* Validate that follows reports "Required parameter is missing", and when
\* there is such a name the run goes on to Repair.
C21_ValidateFindsTheShortfall ==
    [][(/\ prev = "parameter_generator"
        /\ node = "validator"
        /\ UniqueNames(SchemaIn(state)))
       => LET missing == {state.missing_parameters[i] :
                             i \in 1..Len(state.missing_parameters)}
          IN  /\ prev' = "validator"
              /\ node' # "raised"
              /\ ReportedMissing(state') = missing
              /\ state'.missing_parameters = state.missing_parameters
              /\ missing # {} => node' = "repair"]_vars

\* Generate recorded one of two required parameters missing and bound the
\* other; Validate reported the first and the run is at Repair
C21_Witness ==
    /\ call.op = "ParameterGeneratorTool._run"
    /\ prev = "validator"
    /\ node = "repair"
    /\ Len(state.missing_parameters) = 1
    /\ Len(state.parameters) = 1
    /\ RequiredCount(SchemaIn(state)) = 2
    /\ ReportedMissing(state) = {state.missing_parameters[1]}

\* the value the validator checks for a name: that of its last binding
LastValue(parameters, name) ==
    LET bound == {i \in 1..Len(parameters) : parameters[i].name = name}
    IN  parameters[CHOOSE i \in bound : \A j \in bound : j <= i].value

\* the specs of a state's schema that Validate must report, in schema
\* order: required and without a binding, or bound to a value that does
\* not fit the interface
Reportable(s) ==
    LET Absent(spec) == \A i \in 1..Len(s.parameters) :
                            s.parameters[i].name # spec.name
        Unfit(spec) ==
            LET value == LastValue(s.parameters, spec.name)
                interface == Get(spec, "interface", "short_text")
            IN  \/ interface = "number" /\ ~IsNumberValue(value)
                \/ interface = "json" /\ ~is_valid_json(value)
                \/ /\ interface = "single_select"
                   /\ Get(spec, "options", <<>>) # <<>>
                   /\ ~InOptions(value, spec.options)
        Reported(spec) == IF Absent(spec) THEN Get(spec, "required", FALSE)
                          ELSE Unfit(spec)
    IN  [specs |-> SelectSeq(SchemaIn(s), Reported),
         absent |-> {spec.name : spec \in {SchemaIn(s)[i] : i \in
                        {i \in 1..Len(SchemaIn(s)) : Absent(SchemaIn(s)[i])}}}]

\* C22: Validate checks every spec of the schema: its error list holds, in
\* schema order, exactly one entry for each spec that is required and
\* without a binding ("Required parameter is missing") or bound to a
\* value that does not fit its interface (another text), the value being
\* that of the last binding of the name; an optional spec without a binding
\* gets no entry; is_valid is true exactly when the list is empty.
C22_ValidateReportsEverySpec ==
    (prev = "validator" /\ node # "raised")
    => LET errors == state.validation_result.errors
           due == Reportable(state)
       IN  /\ Len(errors) = Len(due.specs)
           /\ \A k \in 1..Len(errors) :
                  /\ errors[k].parameter = due.specs[k].name
                  /\ (errors[k].error = ErrorText.missing)
                         <=> (due.specs[k].name \in due.absent)
           /\ state.validation_result.is_valid <=> (errors = <<>>)

\* two required parameters are missing and a third, optional one is bound
\* twice, to valid JSON and then to a text that is not JSON: three errors
C22_Witness ==
    /\ prev = "validator"
    /\ Len(state.validation_result.errors) = 3
    /\ Len(state.parameters) = 2
    /\ state.parameters[1].name = Word.meta
    /\ state.parameters[2].name = Word.meta
    /\ is_valid_json(state.parameters[1].value)
    /\ state.validation_result.errors[3].parameter = Word.meta
    /\ state.validation_result.errors[3].error # ErrorText.missing
    /\ state.validation_result.errors[1].error = ErrorText.missing

\* the placeholder bindings Repair is to append for a list of errors: one
\* for each error of the kind "Required parameter is missing"
RECURSIVE Placeholders(_)
Placeholders(errors) ==
    IF errors = <<>> THEN <<>>
    ELSE (IF Head(errors).error = ErrorText.missing
          THEN <<[name |-> Head(errors).parameter,
                  value |-> PyStr(Template(Head(errors).parameter)),
                  source |-> "repair"]>>
          ELSE <<>>) \o Placeholders(Tail(errors))

\* C23: Repair only appends to the list of bindings: the parameters it
\* returns are those it was given, in order, followed by one binding
\* {{<name>}} of source repair for each "Required parameter is missing"
\* error, in error order; an error of another kind adds no binding; and it
\* returns one suggestion per error, in error order.
C23_RepairOnlyAppends ==
    [][node = "repair"
       => LET errors == state.validation_result.errors
          IN  /\ state'.parameters = state.parameters \o Placeholders(errors)
              /\ Len(state'.repair_suggestions) = Len(errors)
              /\ \A k \in 1..Len(errors) :
                     state'.repair_suggestions[k]
                         = errors[k].parameter \o <<":", " ">>
                           \o errors[k].suggestion]_vars

\* Generate ran and handed the state to Validate
Generated == prev = "parameter_generator" /\ node = "validator"

\* the names of the schema that neither the request nor a context key
\* matches
Unmatched(s) ==
    {name \in {SchemaIn(s)[i].name : i \in 1..Len(SchemaIn(s))} :
        /\ name \notin DOMAIN extract_parameters_from_request(s.user_request)
        /\ \A k \in 1..Len(s.context_variables) :
               ~Contains(Lower(s.context_variables[k].key), Lower(name))}

\* C24: for a schema parameter that neither the user text nor a context
\* key matches, Generate makes no binding and records the name in
\* missing_parameters when the parameter is required; binds the spec's
\* test value with source default when it is optional and has a test
\* value; and otherwise makes no binding and does not record it.  (Stated
\* per name, so that schemas repeating a name are covered: the bindings of
\* the name are the default bindings of its optional specs with a test
\* value, in schema order, and it is recorded once per required spec.)
C24_DefaultRule ==
    Generated
    => \A name \in Unmatched(state) :
           LET Named(x) == x.name = name
               Required(spec) == Named(spec) /\ Get(spec, "required", FALSE)
               Defaulted(spec) == /\ Named(spec)
                                  /\ ~Get(spec, "required", FALSE)
                                  /\ "test_value" \in DOMAIN spec
               defaulted == SelectSeq(SchemaIn(state), Defaulted)
               IsName(x) == x = name
           IN  /\ SelectSeq(state.parameters, Named)
                      = [i \in 1..Len(defaulted) |->
                             [name |-> name,
                              value |-> defaulted[i].test_value,
                              source |-> "default"]]
               /\ Len(SelectSeq(state.missing_parameters, IsName))
                      = Len(SelectSeq(SchemaIn(state), Required))

\* of two unmatched parameters, a required one is recorded missing and an
\* optional one with a test value is bound to it
C24_Witness ==
    /\ Generated
    /\ call.op = "ParameterGeneratorTool._run"
    /\ Cardinality(Unmatched(state)) = 2
    /\ Len(state.missing_parameters) = 1
    /\ Len(state.parameters) = 1
    /\ state.parameters[1].source = "default"

\* the positions of the context keys that contain a name, case-insensitively
MatchingKeys(s, name) ==
    {k \in 1..Len(s.context_variables) :
        Contains(Lower(s.context_variables[k].key), Lower(name))}

\* the bindings Generate is to make for a name that several context keys
\* contain: for each spec of the name, one binding to the template of the
\* first of these keys, with source context
ContextBindings(s, name) ==
    LET Named(x) == x.name = name
        first == CHOOSE k \in MatchingKeys(s, name) :
                     \A j \in MatchingKeys(s, name) : k <= j
    IN  [i \in 1..Len(SelectSeq(SchemaIn(s), Named)) |->
            [name |-> name,
             value |-> PyStr(Template(s.context_variables[first].key)),
             source |-> "context"]]

\* C25 as stated: whenever several context keys contain the name of a
\* schema parameter, Generate binds the parameter to the template of the
\* first such key with source context, and makes exactly one binding for it.
C25_FirstContextKeyWins_AsStated ==
    Generated
    => \A i \in 1..Len(SchemaIn(state)) :
           LET name == SchemaIn(state)[i].name
               Named(x) == x.name = name
           IN  Cardinality(MatchingKeys(state, name)) >= 2
               => SelectSeq(state.parameters, Named)
                      = ContextBindings(state, name)

\* C25: whenever several context keys contain the name of a schema
\* parameter that the user text does not supply, Generate binds the
\* parameter to the template of the first such key in the context's
\* iteration order, with source context, and makes exactly one binding per
\* spec of that name.
C25_FirstContextKeyWins ==
    Generated
    => \A i \in 1..Len(SchemaIn(state)) :
           LET name == SchemaIn(state)[i].name
               Named(x) == x.name = name
           IN  (/\ Cardinality(MatchingKeys(state, name)) >= 2
                /\ name \notin DOMAIN extract_parameters_from_request(
                                          state.user_request))
               => SelectSeq(state.parameters, Named)
                      = ContextBindings(state, name)

\* two context keys contain "title", page_title before s1.Title, and the
\* one binding of title is the template of page_title
C25_Witness ==
    /\ Generated
    /\ Len(state.context_variables) = 2
    /\ MatchingKeys(state, Word.title) = {1, 2}
    /\ state.context_variables[2].key = Key.s1_title
    /\ state.parameters
           = <<[name |-> Word.title,
                value |-> PyStr(Template(state.context_variables[1].key)),
                source |-> "context"]>>

(***************************************************************************)
(* The integration step of a synthesized workflow                          *)
(***************************************************************************)
\* Synthesize ran and returned
Synthesized == prev = "workflow_generator" /\ node # "raised"

\* C26: in the config of the integration step, a parameter that was
\* routed through a transform step (the workflow has a json_parser step
\* and the parameter needs JSON parsing, or else it has a data_mapper step
\* and the parameter needs data mapping) holds the templated output lookup
\* of that step, {{json_parser.output['<name>']}} or
\* {{data_mapper.output['<name>']}}, and every other parameter holds its
\* bound value; for every workflow Synthesize returns.  (For a name bound
\* more than once the last binding is the one meant.)
C26_TransformedParametersAreReferenced ==
    Synthesized
    => LET definition == state.workflow_definition.definition
           config == IntegrationStepOf(state).config
           params == IF "dynamic" \in DOMAIN config THEN config.dynamic
                     ELSE config.parameters
           schema == AnalyzedSchema(PyOr(state.action_schema,
                                         state.selected_action))
           bound == {i \in 1..Len(state.parameters) :
                        \A j \in (i + 1)..Len(state.parameters) :
                            state.parameters[j].name # state.parameters[i].name}
       IN  /\ DOMAIN params = {state.parameters[i].name : i \in bound}
           /\ \A i \in bound :
                  LET param == state.parameters[i]
                  IN  params[param.name]
                          = IF /\ HasStep(definition, StepName.json_parser)
                               /\ NeedsJsonParsing(param, schema)
                            THEN StepOutput(StepName.json_parser, param.name)
                            ELSE IF /\ HasStep(definition, StepName.data_mapper)
                                    /\ NeedsDataMapping(param)
                            THEN StepOutput(StepName.data_mapper, param.name)
                            ELSE param.value

\* C27: when the platform has candidates, select_integration_action
\* returns as the match a candidate of the highest score, with that score
\* as confidence, and status "success" exactly when the score is greater
\* than the double 0.5, "low_confidence" otherwise (also at exactly 0.5,
\* at 0.4 and at 0).
C27_BestMatchAndStatus ==
    (/\ call.op = "select_integration_action"
     /\ call.done
     /\ call.parsed_request.platform.py = "str"
     /\ Candidates # <<>>)
    => LET Score(action) ==
               calculate_action_relevance(action, call.parsed_request)
           result == call.result.out
       IN  /\ ~call.result.raised
           /\ \E i \in 1..Len(Candidates) : result.action = PyDict(Candidates[i])
           /\ result.confidence = Score(result.action.d)
           /\ \A i \in 1..Len(Candidates) :
                  ~FLess(result.confidence, Score(Candidates[i]))
           /\ result.status = IF FLess(FloatOf(5, 10), result.confidence)
                              THEN "success" ELSE "low_confidence"

\* the best of two candidates scores 0.4 + 0.2 * (1 / 2), the double 0.5,
\* and the status is low_confidence
C27_Witness ==
    /\ Selected
    /\ Len(Candidates) = 2
    /\ call.result.out.confidence = FloatOf(5, 10)
    /\ call.result.out.status = "low_confidence"

(***************************************************************************)
(* The suggestions of the final output                                     *)
(***************************************************************************)
\* the optional parameters of a state's schema that its workflow does not
\* use, in schema order: those named neither by an entry of input_schema
\* nor by a key of the parameters (or else dynamic) config of an
\* integration step
UnusedOptional(s) ==
    LET workflow == s.workflow_definition
        inputs == Get(workflow, "input_schema", <<>>)
        steps == Get(workflow, "definition", <<>>)
        Keys(step) ==
            IF step.type # "integration" THEN {}
            ELSE IF "parameters" \in DOMAIN step.config
            THEN DOMAIN step.config.parameters
            ELSE IF "dynamic" \in DOMAIN step.config
            THEN DOMAIN step.config.dynamic
            ELSE {}
        used == {inputs[i].name : i \in 1..Len(inputs)}
                \cup UNION {Keys(steps[i]) : i \in 1..Len(steps)}
        Unused(spec) == ~Get(spec, "required", FALSE) /\ spec.name \notin used
        unused == SelectSeq(SchemaIn(s), Unused)
    IN  [i \in 1..Len(unused) |-> unused[i].name]

\* C28: the suggestions of the final output are the low-confidence hint
\* exactly when the confidence (0.5 when the state has none) is below 0.8,
\* followed by the optional-parameters suggestion exactly when some
\* optional schema parameter is unused; that suggestion lists the unused
\* optional parameters in schema order.
C28_Suggestions ==
    (prev = "final_output" /\ node = "END")
    => LET confidence == Get(state, "parameter_confidence", Ratio(1, 2))
           unused == UnusedOptional(state)
       IN  state.output_result.suggestions
               = (IF 10 * confidence.num < 8 * confidence.den
                  THEN <<[text |-> "Consider reviewing the parameter mappings for accuracy",
                          params |-> <<>>]>>
                  ELSE <<>>)
                 \o (IF unused # <<>>
                     THEN <<[text |-> "Optional parameters available",
                             params |-> unused]>>
                     ELSE <<>>)

\* a synthesized workflow whose integration step has a dynamic config
\* that binds one optional parameter of the schema and not the other: with
\* confidence 1 the one suggestion lists the other
C28_Witness ==
    /\ prev = "final_output"
    /\ node = "END"
    /\ call.op = "ParameterGeneratorTool._run"
    /\ "dynamic" \in DOMAIN IntegrationStepOf(state).config
    /\ DOMAIN IntegrationStepOf(state).config.dynamic = {Word.count}
    /\ state.output_result.suggestions
           = <<[text |-> "Optional parameters available",
                params |-> <<Word.name>>]>>

(***************************************************************************)
(* What a stage changes                                                    *)
(***************************************************************************)
\* this step is the stage `stage` running and returning
StageRan(stage) == node = stage /\ prev' = stage /\ node' # "raised"

\* this step changes the fields `own` of the state dict and no other:
\* every other field is kept with its value, and no other field is added
Changes(own) ==
    /\ DOMAIN state' = DOMAIN state \cup own
    /\ \A k \in DOMAIN state \ own : state'[k] = state[k]

\* C29: a stage returns a copy of the state in which only its own fields
\* differ: Generate writes parameters, missing_parameters and
\* parameter_confidence; Validate validation_result; Repair parameters,
\* repair_suggestions and repair_applied; Synthesize workflow_definition,
\* transformations_added and workflow_explanation; FinalOutput
\* output_result.  Repair keeps the bindings it was given as the first
\* bindings of the list it returns.
C29_StagesChangeTheirOwnFields ==
    [][/\ StageRan("parameter_generator")
          => Changes({"parameters", "missing_parameters",
                      "parameter_confidence"})
       /\ StageRan("validator") => Changes({"validation_result"})
       /\ (\/ StageRan("repair")
           \/ call.op = "RepairNode._run" /\ ~call.done /\ call'.done)
          => /\ Changes({"parameters", "repair_suggestions", "repair_applied"})
             /\ SubSeq(state'.parameters, 1, Len(state.parameters))
                    = state.parameters
       /\ StageRan("workflow_generator")
          => Changes({"workflow_definition", "transformations_added",
                      "workflow_explanation"})
       /\ StageRan("final_output") => Changes({"output_result"})]_vars

\* Generate, Validate and Repair have run on a request with a context:
\* the state holds the fields of all three beside those it started with
C29_Witness ==
    /\ prev = "repair"
    /\ call.op = "ParameterGeneratorTool._run"
    /\ state.repair_applied
    /\ state.user_request = Request.notion_page
    /\ Len(state.context_variables) = 2
    /\ Len(state.parameters) = 2
    /\ state.parameters[1].source = "user_request"
    /\ state.parameters[2].source = "repair"
    /\ state.missing_parameters = <<state.parameters[2].name>>
    /\ ~state.validation_result.is_valid

\* C30: what Generate writes depends only on action_schema,
\* context_variables and user_request: it is what Generate writes for a
\* state holding these three fields alone, whatever `parameters` held
\* before; no binding Generate writes has source repair, so after a
\* Repair -> Generate step the placeholder bindings of Repair are gone.
C30_GenerateIgnoresBindings ==
    [][StageRan("parameter_generator")
       => LET alone == ParameterGeneratorRun(
                           [action_schema |-> state.action_schema,
                            context_variables |-> state.context_variables,
                            user_request |-> state.user_request]).out
          IN  /\ state'.parameters = alone.parameters
              /\ state'.missing_parameters = alone.missing_parameters
              /\ state'.parameter_confidence = alone.parameter_confidence
              /\ \A i \in 1..Len(state'.parameters) :
                     state'.parameters[i].source # "repair"]_vars

\* Generate ran after a Repair that had appended a placeholder for the
\* parameter reported missing: the state holds one binding, from the
\* context, and the parameter is recorded missing again
C30_Witness ==
    /\ Generated
    /\ repairs = 1
    /\ "repair_applied" \in DOMAIN state
    /\ Len(state.repair_suggestions) = 1
    /\ Len(state.missing_parameters) = 1
    /\ ReportedMissing(state) = {state.missing_parameters[1]}
    /\ Len(state.parameters) = 1
    /\ state.parameters[1].source = "context"

(***************************************************************************)
(* The compiled graph keeps running nodes until it reaches END or a node   *)
(* raises: a run under way is never left standing still.                   *)
(***************************************************************************)
SpecFair == Spec /\ WF_vars(Next)

\* a Validate pass of a run that has been through Repair
Revalidated == node = "validator" /\ prev' = "validator" /\ repairs >= 1

\* C31: within one pipeline run every Validate pass produces the same
\* validation_result.  After a first Validate that is invalid every later
\* Validate reports the identical error list, the run goes round Repair,
\* Generate, Validate for ever and never enters Synthesize or FinalOutput;
\* after a first Validate that is valid Repair is never entered.
C31_ValidateRepeatsItself ==
    /\ [][/\ Revalidated => state'.validation_result = state.validation_result
          /\ (node = "repair") => (node' = "parameter_generator")
          /\ (node = "parameter_generator" /\ repairs >= 1)
                 => (node' = "validator")
          /\ Revalidated => (node' = "repair")
          /\ IsValid(state) => (node' # "repair" /\ IsValid(state'))]_vars
    /\ [](repairs >= 1 =>
              /\ node \in {"repair", "parameter_generator", "validator"}
              /\ ~IsValid(state))
    /\ [](IsValid(state) => repairs = 0)
    /\ [](repairs >= 1 => []<>(node = "repair"))
    /\ [](repairs >= 1 => []<>(node = "validator"))

\* the third Validate pass of a run has sent it to Repair again
C31_Witness ==
    /\ repairs >= 2
    /\ prev = "validator"
    /\ node = "repair"
    /\ ~IsValid(state)
    /\ Len(state.validation_result.errors) >= 1

\* the suggestion FinalOutput gives for a confidence under 0.8
LowConfidenceSuggestion ==
    [text |-> "Consider reviewing the parameter mappings for accuracy",
     params |-> <<>>]

\* a confidence of 1.0
IsOne(confidence) == confidence.den > 0 /\ confidence.num = confidence.den

\* C32: in every pipeline run that reaches FinalOutput,
\* missing_parameters is empty, parameter_confidence is 1.0 and the
\* synthesized workflow passes every structural check; hence
\* output_result.status is `success`, validation_warnings is empty and the
\* low-confidence suggestion is not emitted.
C32_FinalOutputIsSuccess ==
    (/\ prev \in {"workflow_generator", "final_output"}
     /\ node \in {"final_output", "END"})
    => /\ state.missing_parameters = <<>>
       /\ IsOne(state.parameter_confidence)
       /\ validate_workflow(state.workflow_definition)
              = [is_valid |-> TRUE, warnings |-> <<>>]
       /\ node = "END" =>
              /\ state.output_result.status = "success"
              /\ IsOne(state.output_result.confidence)
              /\ state.output_result.validation_warnings = <<>>
              /\ \A i \in 1..Len(state.output_result.suggestions) :
                     state.output_result.suggestions[i] # LowConfidenceSuggestion

\* a run whose schema has required parameters has ended at FinalOutput
C32_Witness ==
    /\ node = "END"
    /\ prev = "final_output"
    /\ IsDict(state)
    /\ state.action_schema.py = "list"
    /\ RequiredCount(SchemaIn(state)) >= 1
    /\ state.output_result.status = "success"

\* Synthesize has just run on a state whose action_schema is the non-empty
\* inputs_schema list SchemaRetrieve stored
SynthesizedFromList ==
    /\ prev = "workflow_generator"
    /\ node = "final_output"
    /\ state.action_schema.py = "list"
    /\ state.action_schema.items # <<>>

\* C33: in a pipeline run SchemaRetrieve stores the selected action's
\* inputs_schema list as action_schema; whenever that list is non-empty
\* Synthesize falls back without raising: the single integration step is
\* named integration_action, its config carries a flat `parameters` map
\* of the raw bound values (no `dynamic`, no reference to a transform
\* step), and input_schema has one generic required `text` entry per
\* bound parameter and no authentication entry.
C33_ListSchemaFallsBack ==
    /\ (node = "parameter_generator" /\ prev = "schema_retriever"
        /\ IsDict(state) /\ Truthy(state.selected_action))
       => state.action_schema
              = PyList(Get(state.selected_action.d, "inputs_schema", <<>>))
    /\ (node = "raised" /\ IsDict(state) /\ state.action_schema.py = "list"
        /\ state.action_schema.items # <<>>)
       => prev # "workflow_generator"
    /\ SynthesizedFromList =>
          LET workflow == state.workflow_definition
              definition == workflow.definition
              step == definition[Len(definition)]
              parameters == state.parameters
              names == {parameters[i].name : i \in 1..Len(parameters)}
          IN  /\ {i \in 1..Len(definition) : definition[i].type = "integration"}
                     = {Len(definition)}
              /\ step.name = StepName.integration_action
              /\ DOMAIN step.config = {"integration", "action", "parameters"}
              /\ step.config.parameters
                     = [n \in names |-> LastValue(parameters, n)]
              /\ workflow.input_schema
                     = [i \in 1..Len(parameters) |->
                           [name |-> parameters[i].name,
                            type |-> "text",
                            required |-> TRUE]]

\* the fallback step of a run that also made a transform step: its
\* parameters hold the template as it was bound
C33_Witness ==
    /\ SynthesizedFromList
    /\ Len(state.workflow_definition.definition) >= 2
    /\ Len(state.parameters) >= 2
    /\ \E n \in DOMAIN IntegrationStepOf(state).config.parameters :
           /\ IntegrationStepOf(state).config.parameters[n].py = "str"
           /\ Contains(IntegrationStepOf(state).config.parameters[n].s, <<"{", "{">>)

(***************************************************************************)
(* Templates under the type checks of the validator                        *)
(***************************************************************************)
\* a str value of the form {{...}}
IsTemplate(value) ==
    /\ value.py = "str"
    /\ Len(value.s) >= 4
    /\ SubSeq(value.s, 1, 2) = <<"{", "{">>
    /\ SubSeq(value.s, Len(value.s) - 1, Len(value.s)) = <<"}", "}">>

\* the specs of interface number or json of a state's schema whose name
\* is bound to a template
TemplateTyped(s) ==
    {i \in 1..Len(SchemaIn(s)) :
        /\ Get(SchemaIn(s)[i], "interface", "short_text") \in {"number", "json"}
        /\ HasBinding(s.parameters, SchemaIn(s)[i].name)
        /\ IsTemplate(LastValue(s.parameters, SchemaIn(s)[i].name))}

\* Generate has run in a run entered at the generator, and it bound a
\* parameter of interface number or json from a context variable
BoundTypedFromContext ==
    /\ call.op = "ParameterGeneratorTool._run"
    /\ prev # "START"
    /\ \E i \in 1..Len(SchemaIn(state)), k \in 1..Len(state.parameters) :
           /\ Get(SchemaIn(state)[i], "interface", "short_text")
                  \in {"number", "json"}
           /\ state.parameters[k].name = SchemaIn(state)[i].name
           /\ state.parameters[k].source = "context"

\* C34: a {{...}} template bound to a parameter whose interface is number
\* or json is always reported type-invalid by Validate; hence a run in
\* which Generate binds a number or json parameter from a context
\* variable never reaches Synthesize.
C34_TemplatesFailTypeChecks ==
    /\ [][StageRan("validator") =>
              /\ \A i \in TemplateTyped(state) :
                     LET spec == SchemaIn(state)[i]
                         value == LastValue(state.parameters, spec.name)
                     IN  \E k \in 1..Len(state'.validation_result.errors) :
                             /\ state'.validation_result.errors[k].parameter
                                    = spec.name
                             /\ state'.validation_result.errors[k].error
                                    = (IF spec.interface = "number"
                                       THEN ErrorText.number
                                       ELSE ErrorText.json) \o value.s
              /\ TemplateTyped(state) # {} =>
                     (~IsValid(state') /\ node' = "repair")]_vars
    /\ [](BoundTypedFromContext =>
              node \notin {"workflow_generator", "final_output", "END"})

\* Validate has just sent to Repair a run in which Generate bound a json
\* parameter from a context variable
C34_Witness ==
    /\ BoundTypedFromContext
    /\ prev = "validator"
    /\ node = "repair"
    /\ \E i \in TemplateTyped(state) :
           /\ SchemaIn(state)[i].interface = "json"
           /\ \E k \in 1..Len(state.parameters) :
                  /\ state.parameters[k].name = SchemaIn(state)[i].name
                  /\ state.parameters[k].source = "context"

(***************************************************************************)
(* The scores of SchemaRetrieve                                            *)
(***************************************************************************)
\* SchemaRetrieve has just run and returned a state
Retrieved ==
    /\ prev = "schema_retriever"
    /\ node = "parameter_generator"
    /\ IsDict(state)

\* the actions of the catalog on the platform of a state, in catalog order
PlatformActions(s) ==
    IF ~TruthyStr(Get(s, "platform", PyStr(<<>>))) THEN <<>>
    ELSE LET OnPlatform(action) ==
                 Lower(action.integration) = Lower(s.platform.s)
         IN  SelectSeq(catalog, OnPlatform)

\* the score of an action for the intent of a state, without parameters
ScoreIn(s, action) ==
    calculate_action_relevance(action,
        [platform |-> s.platform,
         action_intent |-> Get(s, "action_intent", PyStr(<<>>)),
         entity_type |-> Get(s, "entity_type", PyStr(<<>>)),
         parameters |-> <<>>])

\* no action of the platform scores higher than `action`
TopRanked(s, action) ==
    \A k \in 1..Len(PlatformActions(s)) :
        ~FLess(ScoreIn(s, action), ScoreIn(s, PlatformActions(s)[k]))

\* the platform has two actions or more and the two ranked first have
\* the same score
TopTwoTie(s) ==
    \E i, j \in 1..Len(PlatformActions(s)) :
        /\ i # j
        /\ TopRanked(s, PlatformActions(s)[i])
        /\ TopRanked(s, PlatformActions(s)[j])

\* C35 as stated: after SchemaRetrieve needs_action_clarification is true
\* iff the platform has at least two actions and the two top-ranked ones
\* have equal scores.
C35_ClarificationIffTie_AsStated ==
    Retrieved => (state.needs_action_clarification <=> TopTwoTie(state))

\* C35: in a pipeline run in which a platform was identified, every score
\* SchemaRetrieve computes is one of 0, 0.4 or 0.8;
\* needs_action_clarification is true iff the platform has at least two
\* actions and the two top-ranked ones have equal scores; and an action
\* is selected for every platform that has at least one action, even when
\* its score is 0.
C35_ClarificationIffTie ==
    (Retrieved /\ TruthyStr(Get(state, "platform", PyStr(<<>>))))
    => LET actions == PlatformActions(state)
       IN  /\ \A k \in 1..Len(actions) :
                  ScoreIn(state, actions[k])
                      \in {FloatOf(0, 1), FloatOf(4, 10), FloatOf(8, 10)}
           /\ state.needs_action_clarification <=> TopTwoTie(state)
           /\ Len(actions) >= 1
           /\ \E k \in 1..Len(actions) :
                  /\ state.selected_action = PyDict(actions[k])
                  /\ TopRanked(state, actions[k])

\* SchemaRetrieve selected an action whose score is 0, the first of two
\* that tie, and asks for clarification
C35_Witness ==
    /\ Retrieved
    /\ TruthyStr(Get(state, "platform", PyStr(<<>>)))
    /\ Len(PlatformActions(state)) = 2
    /\ state.needs_action_clarification
    /\ state.selected_action = PyDict(PlatformActions(state)[1])
    /\ ScoreIn(state, PlatformActions(state)[1]) = FloatOf(0, 1)

(***************************************************************************)
(* The bindings of Generate                                                *)
(***************************************************************************)
\* the position in a schema of unique names of the spec named `name`,
\* 0 when no spec has the name
SpecIndex(schema, name) ==
    IF \E i \in 1..Len(schema) : schema[i].name = name
    THEN CHOOSE i \in 1..Len(schema) : schema[i].name = name
    ELSE 0

\* C36: for a schema with unique parameter names, Generate produces at
\* most one binding per schema parameter, in schema order, each with
\* source user_request, context or default; the bound names and
\* missing_parameters are disjoint, missing_parameters contains only
\* required parameters, and every required parameter is either bound or
\* listed missing.
C36_GenerateBindings ==
    (Generated /\ UniqueNames(SchemaIn(state)))
    => LET schema == SchemaIn(state)
           parameters == state.parameters
           missing == state.missing_parameters
           bound == {parameters[k].name : k \in 1..Len(parameters)}
           listed == {missing[k] : k \in 1..Len(missing)}
       IN  /\ \A k \in 1..Len(parameters) :
                  /\ SpecIndex(schema, parameters[k].name) # 0
                  /\ parameters[k].source \in {"user_request", "context", "default"}
           /\ \A k, l \in 1..Len(parameters) :
                  k < l => SpecIndex(schema, parameters[k].name)
                               < SpecIndex(schema, parameters[l].name)
           /\ bound \cap listed = {}
           /\ \A name \in listed :
                  /\ SpecIndex(schema, name) # 0
                  /\ Get(schema[SpecIndex(schema, name)], "required", FALSE)
           /\ \A i \in 1..Len(schema) :
                  Get(schema[i], "required", FALSE)
                      => schema[i].name \in bound \cup listed

\* Generate bound one of two parameters of a schema from the context and
\* listed the other, a required one, as missing
C36_Witness ==
    /\ Generated
    /\ call.op = "ParameterGeneratorTool._run"
    /\ UniqueNames(SchemaIn(state))
    /\ Len(SchemaIn(state)) = 2
    /\ Len(state.parameters) = 1
    /\ state.parameters[1].source = "context"
    /\ Len(state.missing_parameters) = 1

====
